---- MODULE Spec2Model ----
(***************************************************************************)
(* The raster editing session of Smart-EDT (ImageEditor, src/src/App.tsx): *)
(* the canvas pixel buffer, the snapshot history with undo/redo, the tool  *)
(* state and the pointer handlers that commit tool operations.             *)
(*                                                                         *)
(* Every React event handler is one atomic action: React re-renders after  *)
(* each event, so a handler reads the state left by the previous one.  The *)
(* exception is img.onload, which runs the saveState closure of the first  *)
(* render (history = [], historyIndex = -1).                               *)
(***************************************************************************)
EXTENDS Integers, Sequences, FiniteSets, TLC

\* ------------------------------------------------------------------ bounds
ImgW == 2                \* width of the decoded image, in pixels
ImgH == 1                \* height of the decoded image, in pixels
MaxHistory == 3          \* most snapshots kept before commits are held back

\* A fresh <canvas> element is 300 x 150 transparent black; the model keeps
\* the 2:1 shape at one pixel per 150.
DefaultCanvasW == 2
DefaultCanvasH == 1

\* ------------------------------------------------------------------ colours
\* A pixel is <<r, g, b, a>>, one byte each.
Transparent == <<0, 0, 0, 0>>
White == <<255, 255, 255, 255>>
Ink == <<10, 10, 10, 255>>
Blue == <<120, 120, 200, 255>>
Paper == <<240, 240, 235, 255>>

Palette == <<Blue, Ink, Paper, White>>

Min(a, b) == IF a < b THEN a ELSE b
Max(a, b) == IF a > b THEN a ELSE b
Abs(a) == IF a < 0 THEN -a ELSE a

\* ------------------------------------------------------------------ canvas
Pixels(w, h) == (0 .. (w - 1)) \X (0 .. (h - 1))

\* A canvas of w x h pixels, all transparent black.
BlankCanvas(w, h) == [w |-> w, h |-> h, px |-> [p \in Pixels(w, h) |-> Transparent]]

\* The decoded source image number k: a fixed pattern over the palette.
DecodedImage(k) ==
  [w |-> ImgW, h |-> ImgH,
   px |-> [p \in Pixels(ImgW, ImgH) |-> Palette[((p[1] + 2 * p[2] + k) % Len(Palette)) + 1]]]

ImageIds == 0 .. 1

\* ctx.getImageData(0, 0, canvas.width, canvas.height): a copy of the buffer.
getImageData(cv) == cv

\* Variant: putImageData that draws nothing.
ctxPutImageData_Keep(cv, imageData) == cv
\* ctx.putImageData(imageData, 0, 0): the pixels of the snapshot that lie
\* on the canvas replace the canvas pixels.
ctxPutImageData(cv, imageData) ==
  [cv EXCEPT !.px = [p \in Pixels(cv.w, cv.h) |->
      IF p \in DOMAIN imageData.px THEN imageData.px[p] ELSE cv.px[p]]]

\* One pixel read; outside the canvas getImageData yields transparent black.
PixelAt(cv, x, y) == IF <<x, y>> \in Pixels(cv.w, cv.h) THEN cv.px[<<x, y>>] ELSE Transparent

\* ctx.fillRect(x, y, width, height) with an opaque fill colour: pixel (i, j)
\* covers [i, i+1) x [j, j+1).
fillRect(cv, x, y, width, height, colour) ==
  [cv EXCEPT !.px = [p \in Pixels(cv.w, cv.h) |->
      IF x <= p[1] /\ p[1] < x + width /\ y <= p[2] /\ p[2] < y + height
      THEN colour ELSE cv.px[p]]]

\* ------------------------------------------------------ 2D context strokes
\* The drawing state of the 2D context that the brush uses: the pen (last
\* point of the current path, NoPoint when the path is empty), the pixels
\* the current path covers when stroked, strokeStyle and lineWidth.
NoPoint == [x |-> -1000, y |-> -1000]

\* Context state of a new or resized canvas: empty path, black 1px stroke.
DefaultCtx == [pen |-> NoPoint, ink |-> {}, strokeStyle |-> <<0, 0, 0, 255>>, lineWidth |-> 1]

\* Does a stroke of width lineWidth along the segment a-b cover the centre
\* of pixel p?  Half-pixel units: centre (2i+1, 2j+1), radius lineWidth.
SegmentCovers(p, a, b, lineWidth) ==
  LET cx == 2 * p[1] + 1
      cy == 2 * p[2] + 1
      ax == 2 * a.x
      ay == 2 * a.y
      bx == 2 * b.x
      by == 2 * b.y
      len2 == (bx - ax) * (bx - ax) + (by - ay) * (by - ay)
      dot == (cx - ax) * (bx - ax) + (cy - ay) * (by - ay)
      cross == (cx - ax) * (by - ay) - (cy - ay) * (bx - ax)
      r2 == lineWidth * lineWidth
  IN IF dot <= 0 THEN (cx - ax) * (cx - ax) + (cy - ay) * (cy - ay) <= r2
     ELSE IF dot >= len2 THEN (cx - bx) * (cx - bx) + (cy - by) * (cy - by) <= r2
     ELSE cross * cross <= r2 * len2

\* ctx.beginPath(); ctx.moveTo(pos); strokeStyle = '#FFFFFF'; lineWidth = size.
ctxBeginBrush(pos, size) ==
  [pen |-> pos, ink |-> {}, strokeStyle |-> White, lineWidth |-> size]

\* ctx.lineTo(pos): on an empty path it only places the pen.
ctxLineTo(ctx, cv, pos) ==
  IF ctx.pen = NoPoint THEN [ctx EXCEPT !.pen = pos]
  ELSE [ctx EXCEPT !.pen = pos,
                   !.ink = ctx.ink \cup
                     {p \in Pixels(cv.w, cv.h) : SegmentCovers(p, ctx.pen, pos, ctx.lineWidth)}]

\* ctx.stroke(): paints the whole current path in strokeStyle.
ctxStroke(ctx, cv) ==
  [cv EXCEPT !.px = [p \in Pixels(cv.w, cv.h) |->
      IF p \in ctx.ink THEN ctx.strokeStyle ELSE cv.px[p]]]

\* -------------------------------------------------- background inference
\* Math.round(v / 5) * 5 for a byte v.
Quantize(v) == ((v + 2) \div 5) * 5

BucketKey(c) == <<Quantize(c[1]), Quantize(c[2]), Quantize(c[3])>>

\* Variant: no sample is discarded as dark.
IsDarkSample_Never(c) == FALSE
IsDarkSample(c) == c[1] < 80 /\ c[2] < 80 /\ c[3] < 80

\* The sampled sub-rectangle around the selection (x, y, width, height).
SampleRegion(cv, x, y, width, height) ==
  LET samplePadding == 2
      sampleX == Max(0, x - samplePadding)
      sampleY == Max(0, y - samplePadding)
  IN [x |-> sampleX, y |-> sampleY,
      w |-> Min(cv.w - sampleX, width + samplePadding * 2),
      h |-> Min(cv.h - sampleY, height + samplePadding * 2)]

OnSamplePerimeter(reg, px, py) ==
  px = 0 \/ px = reg.w - 1 \/ py = 0 \/ py = reg.h - 1

\* The scan loop over sample n, n+1, ... in row-major order; acc holds the
\* bucket counts, maxCount and the current background candidate.
RECURSIVE InferScan(_, _, _, _)
InferScan(cv, reg, n, acc) ==
  IF reg.w <= 0 \/ reg.h <= 0 \/ n >= reg.w * reg.h THEN acc
  ELSE LET px == n % reg.w
           py == n \div reg.w
           c == PixelAt(cv, reg.x + px, reg.y + py)
           key == BucketKey(c)
           cnt == (IF key \in DOMAIN acc.colors THEN acc.colors[key] ELSE 0) + 1
       IN IF ~OnSamplePerimeter(reg, px, py) \/ IsDarkSample(c)
          THEN InferScan(cv, reg, n + 1, acc)
          ELSE InferScan(cv, reg, n + 1,
                 [colors |-> [k \in (DOMAIN acc.colors) \cup {key} |->
                                IF k = key THEN cnt ELSE acc.colors[k]],
                  maxCount |-> IF cnt > acc.maxCount THEN cnt ELSE acc.maxCount,
                  bg |-> IF cnt > acc.maxCount THEN <<c[1], c[2], c[3]>> ELSE acc.bg])

\* Variant: the candidate starts as black.
InferBackground_DefaultBlack(cv, x, y, width, height) ==
  InferScan(cv, SampleRegion(cv, x, y, width, height), 0,
            [colors |-> <<>>, maxCount |-> 0, bg |-> <<0, 0, 0>>]).bg
\* rgb(bgR, bgG, bgB) inferred for the selection.
InferBackground(cv, x, y, width, height) ==
  InferScan(cv, SampleRegion(cv, x, y, width, height), 0,
            [colors |-> <<>>, maxCount |-> 0, bg |-> <<255, 255, 255>>]).bg

\* getImageData throws IndexSizeError on a region of zero width or height.
InferThrows(cv, x, y, width, height) ==
  LET reg == SampleRegion(cv, x, y, width, height) IN reg.w = 0 \/ reg.h = 0

\* ------------------------------------------------------------- flood fill
\* Variant: no seed is refused as near-white.
NearWhite_Never(c) == FALSE
NearWhite(c) == c[1] > 240 /\ c[2] > 240 /\ c[3] > 240
\* Variant: only pure black counts as near-black.
NearBlack_Pure(c) == c[1] = 0 /\ c[2] = 0 /\ c[3] = 0
NearBlack(c) == c[1] < 50 /\ c[2] < 50 /\ c[3] < 50

Tolerance == 40

\* Variant: the tolerance taken inclusively.
matchColor_Inclusive(c, target) ==
  (c[1] - target[1]) * (c[1] - target[1]) + (c[2] - target[2]) * (c[2] - target[2])
    + (c[3] - target[3]) * (c[3] - target[3]) <= Tolerance * Tolerance
\* sqrt(dr^2 + dg^2 + db^2) < tolerance
matchColor(c, target) ==
  (c[1] - target[1]) * (c[1] - target[1]) + (c[2] - target[2]) * (c[2] - target[2])
    + (c[3] - target[3]) * (c[3] - target[3]) < Tolerance * Tolerance

\* The traversal loop: stack of <<x, y>>, popped from the end.
RECURSIVE FloodLoop(_, _, _, _, _, _)
FloodLoop(stack, visited, data, target, width, height) ==
  IF stack = <<>> THEN data
  ELSE LET p == stack[Len(stack)]
           rest == SubSeq(stack, 1, Len(stack) - 1)
           x == p[1]
           y == p[2]
           vis == visited \cup {p}
           pushL == IF x > 0 /\ <<x - 1, y>> \notin vis THEN <<(<<x - 1, y>>)>> ELSE <<>>
           pushR == IF x < width - 1 /\ <<x + 1, y>> \notin vis THEN <<(<<x + 1, y>>)>> ELSE <<>>
           pushU == IF y > 0 /\ <<x, y - 1>> \notin vis THEN <<(<<x, y - 1>>)>> ELSE <<>>
           pushD == IF y < height - 1 /\ <<x, y + 1>> \notin vis THEN <<(<<x, y + 1>>)>> ELSE <<>>
       IN IF p \in visited THEN FloodLoop(rest, visited, data, target, width, height)
          ELSE IF matchColor(data[p], target)
               THEN FloodLoop(rest \o pushL \o pushR \o pushU \o pushD, vis,
                              [data EXCEPT ![p] = White], target, width, height)
               ELSE FloodLoop(rest, vis, data, target, width, height)

\* Variant: a popped pixel is never skipped.
SkipPopped_Never(visited, p) == FALSE
\* if (visited[idx]) continue
SkipPopped(visited, p) == p \in visited

\* The traversal loop with a record of its work: the pixels tested with
\* matchColor and the pixels recoloured, in order, and the number of pops.
RECURSIVE FloodRun(_, _, _, _, _, _, _)
FloodRun(stack, visited, data, target, width, height, run) ==
  IF stack = <<>> THEN [data |-> data, tested |-> run.tested, filled |-> run.filled,
                        pops |-> run.pops]
  ELSE LET p == stack[Len(stack)]
           rest == SubSeq(stack, 1, Len(stack) - 1)
           x == p[1]
           y == p[2]
           vis == visited \cup {p}
           pushL == IF x > 0 /\ <<x - 1, y>> \notin vis THEN <<(<<x - 1, y>>)>> ELSE <<>>
           pushR == IF x < width - 1 /\ <<x + 1, y>> \notin vis THEN <<(<<x + 1, y>>)>> ELSE <<>>
           pushU == IF y > 0 /\ <<x, y - 1>> \notin vis THEN <<(<<x, y - 1>>)>> ELSE <<>>
           pushD == IF y < height - 1 /\ <<x, y + 1>> \notin vis THEN <<(<<x, y + 1>>)>> ELSE <<>>
           popped == [run EXCEPT !.pops = run.pops + 1]
           test == [popped EXCEPT !.tested = Append(run.tested, p)]
       IN IF SkipPopped(visited, p)
          THEN FloodRun(rest, visited, data, target, width, height, popped)
          ELSE IF matchColor(data[p], target)
               THEN FloodRun(rest \o pushL \o pushR \o pushU \o pushD, vis,
                             [data EXCEPT ![p] = White], target, width, height,
                             [test EXCEPT !.filled = Append(run.filled, p)])
               ELSE FloodRun(rest, vis, data, target, width, height, test)

\* The run of removeColorAt(startX, startY) from an accepted seed.
WandRun(cv, startX, startY) ==
  FloodRun(<<(<<startX, startY>>)>>, {}, cv.px, cv.px[<<startX, startY>>], cv.w, cv.h,
           [tested |-> <<>>, filled |-> <<>>, pops |-> 0])
\* Does removeColorAt(startX, startY) return before filling?
WandRefused(cv, startX, startY) ==
  \/ startX < 0 \/ startX >= cv.w \/ startY < 0 \/ startY >= cv.h
  \/ NearWhite(cv.px[<<startX, startY>>])
  \/ NearBlack(cv.px[<<startX, startY>>])

\* The buffer after the fill from an accepted seed.
WandFill(cv, startX, startY) ==
  [cv EXCEPT !.px = FloodLoop(<<(<<startX, startY>>)>>, {}, cv.px,
                              cv.px[<<startX, startY>>], cv.w, cv.h)]

\* ---------------------------------------------------------------- history
\* Variant: saveState that records the snapshot twice.
saveStateOn_Twice(hist, idx, cv) ==
  LET newHistory == Append(Append(SubSeq(hist, 1, idx + 1), getImageData(cv)), getImageData(cv))
  IN [history |-> newHistory, historyIndex |-> Len(newHistory) - 1]
\* Variant: saveState without the slice.
saveStateOn_NoSlice(hist, idx, cv) ==
  LET newHistory == Append(hist, getImageData(cv))
  IN [history |-> newHistory, historyIndex |-> Len(newHistory) - 1]
\* saveState on a closure that sees (hist, idx): slice(0, idx + 1), push.
\* historyIndex is 0-based as in the code; history[i] is hist[i + 1] here.
saveStateOn(hist, idx, cv) ==
  LET newHistory == Append(SubSeq(hist, 1, idx + 1), getImageData(cv))
  IN [history |-> newHistory, historyIndex |-> Len(newHistory) - 1]

\* Variant: the guard of undo with >= for >.
CanUndo_FromZero(idx) == idx >= 0
\* The guards of undo and redo.
CanUndo(idx) == idx > 0
\* Variant: the guard of redo one entry late.
CanRedo_Past(hist, idx) == idx < Len(hist)
CanRedo(hist, idx) == idx < Len(hist) - 1

\* disabled= of the undo and redo buttons.
UndoDisabled(idx) == idx <= 0
RedoDisabled(hist, idx) == idx >= Len(hist) - 1

\* history[i] as the code reads it; out of range it is undefined and
\* ctx.putImageData(undefined, 0, 0) throws a TypeError.
HistoryEntryDefined(hist, i) == 0 <= i /\ i < Len(hist)

\* ------------------------------------------------------------- geometry
Pos(x, y) == [x |-> x, y |-> y]

\* canvas.getBoundingClientRect(): the canvas is shown at one screen pixel
\* per buffer pixel with its corner at (RectLeft, RectTop); in rotated mode
\* the on-screen rectangle has the buffer's height as its width.
RectLeft == 1
RectTop == 1
CanvasRect(cv, rotated) ==
  LET rw == IF rotated THEN cv.h ELSE cv.w
      rh == IF rotated THEN cv.w ELSE cv.h
  IN [left |-> RectLeft, top |-> RectTop, width |-> rw, height |-> rh,
      right |-> RectLeft + rw, bottom |-> RectTop + rh]

\* The pointer position an event reports: touches[0] or the mouse position.
ClientPoint(e) == e.pts[1]

\* getMousePos: a * (num / den), exact for the rectangles above.
Scaled(a, num, den) == (a * num) \div den

\* Variant: the normal mapping used in rotated mode too.
MousePosIn_Unrotated(rect, c, cv, rotated) ==
  Pos(Scaled(c.x - rect.left, cv.w, rect.width),
      Scaled(c.y - rect.top, cv.h, rect.height))
\* The mapping of getMousePos for the bounding rectangle rect and the
\* client point c, both in the same unit.
MousePosIn(rect, c, cv, rotated) ==
  IF rotated
  THEN Pos(Scaled(c.y - rect.top, cv.w, rect.height),
           Scaled(rect.right - c.x, cv.h, rect.width))
  ELSE Pos(Scaled(c.x - rect.left, cv.w, rect.width),
           Scaled(c.y - rect.top, cv.h, rect.height))

getMousePos(e, cv, rotated) ==
  MousePosIn(CanvasRect(cv, rotated), ClientPoint(e), cv, rotated)

\* Math.hypot over whole numbers, for the distances the model's touch
\* points produce (perfect squares).
Hypot(dx, dy) ==
  LET s == dx * dx + dy * dy
  IN CHOOSE r \in 0 .. s : r * r <= s /\ (r + 1) * (r + 1) > s

TouchDistance(e) == Hypot(e.pts[1].x - e.pts[2].x, e.pts[1].y - e.pts[2].y)
TouchMid(e) == Pos((e.pts[1].x + e.pts[2].x) \div 2, (e.pts[1].y + e.pts[2].y) \div 2)

\* ------------------------------------------------------------- colours 2
\* '#rrggbb' as the number 0xrrggbb.
HexOf(c) == c[1] * 65536 + c[2] * 256 + c[3]
\* The opaque pixel a CSS colour '#rrggbb' paints.
CssHex(n) == <<n \div 65536, (n \div 256) % 256, n % 256, 255>>
\* The opaque pixel 'rgb(r, g, b)' paints.
CssRgb(c) == <<c[1], c[2], c[3], 255>>

InitialManualBgColor == 16777215
NoDistance == -1
NoBox == [x |-> 0, y |-> 0, w |-> 0, h |-> 0]
Tools == {"wand", "eraser", "remove-text", "hand", "pipette", "text-box", "brush"}

\* ------------------------------------------------------------ view scale
\* scale is kept in thousandths.  Fit-to-container value of the fit-scale
\* effect and of resetView; the container's client size is ContainerW x
\* ContainerH.
ContainerW == 41
ContainerH == 41
FitScale(size, rotated) ==
  LET containerWidth == ContainerW - 40
      containerHeight == ContainerH - 40
      availW == IF rotated THEN containerHeight ELSE containerWidth
      availH == IF rotated THEN containerWidth ELSE containerHeight
  IN Min(Min((availW * 1000) \div size.width, (availH * 1000) \div size.height), 1000)

\* ================================================================== state
VARIABLES
  canvas,             \* the pixel buffer of the <canvas> element
  ctx,                \* path and stroke state of its 2D context
  decode,             \* the image decode: "pending", "done" or "failed"
  imageLoaded, imageSize,
  history, historyIndex,
  tool, prevTool,
  isDrawing, isPanning, startPos, currentPos, lastPanPos, lastTouchDistance,
  panOffset, scale, isRotated,
  brushSize, manualBgColor, useManualColor,
  isEnteringText, pendingTextBox, boxText, boxAlignment,
  features,           \* the enabledFeatures and autoRotateEnabled props
  last,               \* observer: what the last handler did (see Track)
  seq,                \* observer: commits and undos counted since the load
  painted,            \* observer: a brush segment was painted in the gesture in progress
  held,               \* observer: the tool Space was pressed on, "none" while Space is up
  onSaveCalls,        \* the arguments of the onSave calls made so far
  fillTextCalls,      \* observer: the ctx.fillText calls the last handler made
  firstTouch,         \* observer: the last handler call was a touch-start of one finger
  webhookUrl,         \* server: process.env.DISCORD_WEBHOOK_URL is defined
  requests            \* server: the POST /api/feedback requests and their responses

bufVars == <<canvas, ctx>>
loadVars == <<decode, imageLoaded, imageSize>>
histVars == <<history, historyIndex>>
toolVars == <<tool, prevTool>>
gestureVars == <<isDrawing, isPanning, startPos, currentPos, lastPanPos, lastTouchDistance>>
viewVars == <<panOffset, scale, isRotated>>
colourVars == <<brushSize, manualBgColor, useManualColor>>
boxVars == <<isEnteringText, pendingTextBox, boxText, boxAlignment>>
vars == <<bufVars, loadVars, histVars, toolVars, gestureVars, viewVars, colourVars,
          boxVars, features, last, seq, painted, held, onSaveCalls, fillTextCalls,
          firstTouch, webhookUrl, requests>>

\* The default feature flags of App, with auto-rotation on.
AllFeatures ==
  [removeText |-> TRUE, removeColor |-> TRUE, wordBox |-> TRUE, wordBoxSimplified |-> FALSE,
   eraser |-> TRUE, zoom |-> TRUE, undoRedo |-> TRUE, autoRotateEnabled |-> TRUE]

\* The feedback requests a server handles at a time.
MaxRequests == 2
RequestIds == 1 .. MaxRequests
NoRequest == [pc |-> "none", type |-> "", sent |-> <<>>]

\* State of the first render, before the image has been decoded, beside a
\* server started in one of the environments env.
InitEnv(configs, env) ==
  /\ canvas = BlankCanvas(DefaultCanvasW, DefaultCanvasH)
  /\ ctx = DefaultCtx
  /\ decode = "pending"
  /\ imageLoaded = FALSE
  /\ imageSize = [width |-> 0, height |-> 0]
  /\ history = <<>>
  /\ historyIndex = -1
  /\ tool = "remove-text"
  /\ prevTool = "remove-text"
  /\ isDrawing = FALSE
  /\ isPanning = FALSE
  /\ startPos = Pos(0, 0)
  /\ currentPos = Pos(0, 0)
  /\ lastPanPos = Pos(0, 0)
  /\ lastTouchDistance = NoDistance
  /\ panOffset = Pos(0, 0)
  /\ scale = 1000
  /\ isRotated = FALSE
  /\ brushSize = 20
  /\ manualBgColor = InitialManualBgColor
  /\ useManualColor = FALSE
  /\ isEnteringText = FALSE
  /\ pendingTextBox = NoBox
  /\ boxText = <<>>
  /\ boxAlignment = "left"
  /\ features \in configs
  /\ last = "none"
  /\ seq = [phase |-> "pre", n |-> 0, u |-> 0, base |-> BlankCanvas(0, 0)]
  /\ painted = FALSE
  /\ held = "none"
  /\ onSaveCalls = <<>>
  /\ fillTextCalls = <<>>
  /\ firstTouch = FALSE
  /\ webhookUrl \in env
  /\ requests = [r \in RequestIds |-> NoRequest]

InitWith(configs) == InitEnv(configs, {FALSE})
Init == InitWith({AllFeatures})

\* ------------------------------------------------------------- observers
\* ev is what the handler did: "load"; "push" (one snapshot appended at
\* the top), "prune" (one snapshot appended over discarded redo entries);
\* "undo", "redo"; "undo0", "redoTop" (undo or redo called where it does
\* nothing); "drop" (a drag released on an empty rectangle); "refuse" (a
\* wand click that returned early); "error" (the handler threw); "none".
\* seq follows the pattern "N commits, then undos" that starts at the
\* load; any other event after an undo ends the pattern.
TrackTouch(ev, h, calls, texts, one) ==
  /\ firstTouch' = one
  /\ UNCHANGED <<webhookUrl, requests>>
  /\ fillTextCalls' = texts
  /\ onSaveCalls' = calls
  /\ held' = h
  /\ last' = ev
  /\ seq' = CASE ev = "load" -> [phase |-> "ops", n |-> 0, u |-> 0, base |-> getImageData(canvas')]
              [] ev = "push" /\ seq.phase = "ops" -> [seq EXCEPT !.n = seq.n + 1]
              [] ev = "undo" /\ seq.phase \in {"ops", "undos"} /\ seq.u < seq.n ->
                   [seq EXCEPT !.phase = "undos", !.u = seq.u + 1]
              [] ev \in {"none", "drop", "refuse"} /\ seq.phase \in {"pre", "ops"} -> seq
              [] OTHER -> [seq EXCEPT !.phase = IF seq.phase = "pre" THEN "pre" ELSE "off",
                                      !.n = 0, !.u = 0]

TrackDraw(ev, h, calls, texts) == TrackTouch(ev, h, calls, texts, FALSE)

TrackOut(ev, h, calls) == TrackDraw(ev, h, calls, <<>>)

TrackHeld(ev, h) == TrackOut(ev, h, onSaveCalls)

Track(ev) == TrackHeld(ev, held)

\* A touch-start handled: e.touches.length === 1 is noted.
TrackStart(ev, e) == TrackTouch(ev, held, onSaveCalls, <<>>, e.isTouch /\ Len(e.pts) = 1)

\* The event of a saveState call made at (hist, idx).
PushEvent(hist, idx) == IF idx < Len(hist) - 1 THEN "prune" ELSE "push"

\* ------------------------------------------------------------ image load
\* Variant: the baseline recorded with the saveState of the current render.
onload_CurrentRender(img) ==
  /\ decode = "pending"
  /\ decode' = "done"
  /\ canvas' = img
  /\ ctx' = DefaultCtx
  /\ imageSize' = [width |-> img.w, height |-> img.h]
  /\ imageLoaded' = TRUE
  /\ LET s == saveStateOn(history, historyIndex, canvas')
     IN /\ history' = s.history
        /\ historyIndex' = s.historyIndex
  /\ scale' = FitScale(imageSize', isRotated)
  /\ UNCHANGED <<toolVars, gestureVars, panOffset, isRotated, colourVars, boxVars, features, painted>>
  /\ Track("load")
\* img.onload: size the canvas to the image, draw it, record the baseline
\* with the saveState of the first render; the fit-scale effect follows.
onload(img) ==
  /\ decode = "pending"
  /\ decode' = "done"
  /\ canvas' = img
  /\ ctx' = DefaultCtx
  /\ imageSize' = [width |-> img.w, height |-> img.h]
  /\ imageLoaded' = TRUE
  /\ LET s == saveStateOn(<<>>, -1, canvas')
     IN /\ history' = s.history
        /\ historyIndex' = s.historyIndex
  /\ scale' = FitScale(imageSize', isRotated)
  /\ UNCHANGED <<toolVars, gestureVars, panOffset, isRotated, colourVars, boxVars, features, painted>>
  /\ Track("load")

\* The load of the source image number k.
Load(k) == onload(DecodedImage(k))

\* The decode fails: onload never runs.
DecodeFail ==
  /\ decode = "pending"
  /\ decode' = "failed"
  /\ UNCHANGED <<bufVars, imageLoaded, imageSize, histVars, toolVars, gestureVars, viewVars,
                 colourVars, boxVars, features, painted>>
  /\ Track("none")

\* ------------------------------------------------------------ undo / redo
\* What undo and redo do to (history index, buffer).  putImageData throws
\* a TypeError on an undefined entry, after the index has been set.
undoOn(hist, idx, cv) ==
  IF ~CanUndo(idx) THEN [historyIndex |-> idx, canvas |-> cv, ev |-> "undo0"]
  ELSE IF HistoryEntryDefined(hist, idx - 1)
  THEN [historyIndex |-> idx - 1, canvas |-> ctxPutImageData(cv, hist[idx - 1 + 1]), ev |-> "undo"]
  ELSE [historyIndex |-> idx - 1, canvas |-> cv, ev |-> "error"]

redoOn(hist, idx, cv) ==
  IF ~CanRedo(hist, idx) THEN [historyIndex |-> idx, canvas |-> cv, ev |-> "redoTop"]
  ELSE IF HistoryEntryDefined(hist, idx + 1)
  THEN [historyIndex |-> idx + 1, canvas |-> ctxPutImageData(cv, hist[idx + 1 + 1]), ev |-> "redo"]
  ELSE [historyIndex |-> idx + 1, canvas |-> cv, ev |-> "error"]

\* Variant: an undo that drops the snapshots above the new index.
undo_Truncates ==
  /\ features.undoRedo
  /\ ~isEnteringText
  /\ LET r == undoOn(history, historyIndex, canvas)
     IN /\ historyIndex' = r.historyIndex
        /\ canvas' = r.canvas
        /\ history' = SubSeq(history, 1, r.historyIndex + 1)
        /\ Track(r.ev)
  /\ UNCHANGED <<ctx, loadVars, toolVars, gestureVars, viewVars, colourVars, boxVars,
                 features, painted>>
undo ==
  /\ features.undoRedo
  /\ ~isEnteringText
  /\ LET r == undoOn(history, historyIndex, canvas)
     IN /\ historyIndex' = r.historyIndex
        /\ canvas' = r.canvas
        /\ Track(r.ev)
  /\ UNCHANGED <<ctx, loadVars, history, toolVars, gestureVars, viewVars, colourVars, boxVars,
                 features, painted>>

redo ==
  /\ features.undoRedo
  /\ ~isEnteringText
  /\ LET r == redoOn(history, historyIndex, canvas)
     IN /\ historyIndex' = r.historyIndex
        /\ canvas' = r.canvas
        /\ Track(r.ev)
  /\ UNCHANGED <<ctx, loadVars, history, toolVars, gestureVars, viewVars, colourVars, boxVars,
                 features, painted>>

\* -------------------------------------------------------- pointer events
\* An event is [isTouch, button, pts]: pts holds touches[0..], or the one
\* mouse position.
IsTwoFinger(e) == e.isTouch /\ Len(e.pts) = 2

\* Variant: the pixel to the right of the cursor is read.
sampleColorAt_Neighbour(cv, x, y) == HexOf(PixelAt(cv, x + 1, y))
\* sampleColorAt: the colour under the cursor as '#rrggbb'.
sampleColorAt(cv, x, y) == HexOf(PixelAt(cv, x, y))

\* handlePointerDown
handlePointerDown(e) ==
  /\ ~isEnteringText
  /\ IF IsTwoFinger(e)
     THEN /\ isDrawing' = FALSE
          /\ isPanning' = TRUE
          /\ lastTouchDistance' = TouchDistance(e)
          /\ lastPanPos' = TouchMid(e)
          /\ UNCHANGED <<bufVars, histVars, startPos, currentPos, tool, manualBgColor,
                         useManualColor, painted>>
          /\ TrackStart("none", e)
     ELSE IF tool = "hand" \/ (~e.isTouch /\ e.button = 1)
     THEN /\ isPanning' = TRUE
          /\ lastPanPos' = ClientPoint(e)
          /\ UNCHANGED <<bufVars, histVars, isDrawing, startPos, currentPos, lastTouchDistance,
                         tool, manualBgColor, useManualColor, painted>>
          /\ TrackStart("none", e)
     ELSE LET pos == getMousePos(e, canvas, isRotated)
              refused == WandRefused(canvas, pos.x, pos.y)
          IN /\ startPos' = pos
             /\ currentPos' = pos
             /\ isDrawing' = (tool \notin {"wand", "pipette"})
             /\ painted' = FALSE
             /\ ctx' = IF tool = "brush" THEN ctxBeginBrush(pos, brushSize) ELSE ctx
             /\ IF tool = "wand" /\ ~refused
                THEN /\ canvas' = WandFill(canvas, pos.x, pos.y)
                     /\ LET s == saveStateOn(history, historyIndex, canvas')
                        IN /\ history' = s.history
                           /\ historyIndex' = s.historyIndex
                     /\ TrackStart(PushEvent(history, historyIndex), e)
                ELSE /\ UNCHANGED <<canvas, histVars>>
                     /\ TrackStart(IF tool = "wand" THEN "refuse" ELSE "none", e)
             /\ IF tool = "pipette"
                THEN /\ manualBgColor' = sampleColorAt(canvas, pos.x, pos.y)
                     /\ useManualColor' = TRUE
                     /\ tool' = "remove-text"
                ELSE UNCHANGED <<manualBgColor, useManualColor, tool>>
             /\ UNCHANGED <<isPanning, lastPanPos, lastTouchDistance>>
  /\ Len(history') <= MaxHistory
  /\ UNCHANGED <<loadVars, prevTool, viewVars, brushSize, boxVars, features>>

\* Math.min(Math.max(0.1, s * dist / last), 5), in thousandths.
PinchScale(s, dist, lastDist) == Min(Max(100, (s * dist) \div lastDist), 5000)

\* handlePointerMove
handlePointerMove(e) ==
  /\ ~isEnteringText
  /\ IF IsTwoFinger(e) /\ lastTouchDistance # NoDistance
     THEN /\ lastTouchDistance > 0
          /\ scale' = PinchScale(scale, TouchDistance(e), lastTouchDistance)
          /\ lastTouchDistance' = TouchDistance(e)
          /\ panOffset' = Pos(panOffset.x + TouchMid(e).x - lastPanPos.x,
                              panOffset.y + TouchMid(e).y - lastPanPos.y)
          /\ lastPanPos' = TouchMid(e)
          /\ UNCHANGED <<bufVars, currentPos, painted>>
     ELSE IF isPanning
     THEN /\ panOffset' = Pos(panOffset.x + ClientPoint(e).x - lastPanPos.x,
                              panOffset.y + ClientPoint(e).y - lastPanPos.y)
          /\ lastPanPos' = ClientPoint(e)
          /\ UNCHANGED <<bufVars, currentPos, scale, lastTouchDistance, painted>>
     ELSE IF ~isDrawing \/ tool = "wand"
     THEN UNCHANGED <<bufVars, currentPos, scale, lastTouchDistance, panOffset, lastPanPos, painted>>
     ELSE LET pos == getMousePos(e, canvas, isRotated)
              c2 == ctxLineTo(ctx, canvas, pos)
          IN /\ currentPos' = pos
             /\ IF tool = "brush"
                THEN /\ ctx' = c2
                     /\ canvas' = ctxStroke(c2, canvas)
                     /\ painted' = (painted \/ ctx.pen # NoPoint)
                ELSE UNCHANGED <<bufVars, painted>>
             /\ UNCHANGED <<scale, lastTouchDistance, panOffset, lastPanPos>>
  /\ UNCHANGED <<loadVars, histVars, toolVars, isDrawing, isPanning, startPos, isRotated,
                 colourVars, boxVars, features>>
  /\ Track("none")

\* Variant: the rectangle anchored at the start of the drag.
SelectionRect_FromStart(a, b) ==
  [x |-> a.x, y |-> a.y, w |-> Abs(b.x - a.x), h |-> Abs(b.y - a.y)]
\* The normalized selection rectangle of the drag startPos..currentPos.
SelectionRect(a, b) ==
  [x |-> Min(a.x, b.x), y |-> Min(a.y, b.y), w |-> Abs(b.x - a.x), h |-> Abs(b.y - a.y)]

\* Variant: the early return taken only when both sides are empty.
IsDegenerate_Both(r) == r.w = 0 /\ r.h = 0
\* The early return of handlePointerUp on an empty rectangle.
IsDegenerate(r) == r.w = 0 \/ r.h = 0

\* The fill colour of a text-eraser commit.
FinalBgColor(cv, r, useManual, manual) ==
  IF useManual THEN CssHex(manual) ELSE CssRgb(InferBackground(cv, r.x, r.y, r.w, r.h))

\* handlePointerUp (mouse up, mouse leave, touch end)
handlePointerUp ==
  /\ lastTouchDistance' = NoDistance
  /\ IF isPanning
     THEN /\ isPanning' = FALSE
          /\ UNCHANGED <<canvas, histVars, isDrawing, isEnteringText, pendingTextBox>>
          /\ Track("none")
     ELSE IF ~isDrawing
     THEN /\ UNCHANGED <<canvas, histVars, isDrawing, isPanning, isEnteringText, pendingTextBox>>
          /\ Track("none")
     ELSE LET r == SelectionRect(startPos, currentPos)
          IN /\ isDrawing' = FALSE
             /\ UNCHANGED isPanning
             /\ IF IsDegenerate(r)
                THEN /\ UNCHANGED <<canvas, histVars, isEnteringText, pendingTextBox>>
                     /\ Track("drop")
                ELSE IF tool = "eraser"
                THEN /\ canvas' = fillRect(canvas, r.x, r.y, r.w, r.h, White)
                     /\ LET s == saveStateOn(history, historyIndex, canvas')
                        IN /\ history' = s.history
                           /\ historyIndex' = s.historyIndex
                     /\ UNCHANGED <<isEnteringText, pendingTextBox>>
                     /\ Track(PushEvent(history, historyIndex))
                ELSE IF tool = "brush"
                THEN /\ UNCHANGED canvas
                     /\ LET s == saveStateOn(history, historyIndex, canvas)
                        IN /\ history' = s.history
                           /\ historyIndex' = s.historyIndex
                     /\ UNCHANGED <<isEnteringText, pendingTextBox>>
                     /\ Track(PushEvent(history, historyIndex))
                ELSE IF tool = "text-box"
                THEN /\ pendingTextBox' = r
                     /\ isEnteringText' = TRUE
                     /\ UNCHANGED <<canvas, histVars>>
                     /\ Track("none")
                ELSE IF tool = "remove-text"
                THEN IF ~useManualColor /\ InferThrows(canvas, r.x, r.y, r.w, r.h)
                     THEN /\ UNCHANGED <<canvas, histVars, isEnteringText, pendingTextBox>>
                          /\ Track("error")
                     ELSE /\ canvas' = fillRect(canvas, r.x, r.y, r.w, r.h,
                                         FinalBgColor(canvas, r, useManualColor, manualBgColor))
                          /\ LET s == saveStateOn(history, historyIndex, canvas')
                             IN /\ history' = s.history
                                /\ historyIndex' = s.historyIndex
                          /\ UNCHANGED <<isEnteringText, pendingTextBox>>
                          /\ Track(PushEvent(history, historyIndex))
                ELSE /\ UNCHANGED <<canvas, histVars, isEnteringText, pendingTextBox>>
                     /\ Track("none")
  /\ Len(history') <= MaxHistory
  /\ painted' = (painted /\ isDrawing')
  /\ UNCHANGED <<ctx, loadVars, toolVars, startPos, currentPos, lastPanPos, viewVars, colourVars,
                 boxText, boxAlignment, features>>

\* ---------------------------------------------------------------- text box
\* Style defaults of the text-box step (the model keeps them at their
\* initial values): opaque white background, no border, padding 10.
BoxBgColor == 16777215
BoxColor == 0
BoxPadding == 10

\* A text is the sequence of its characters.  ctx.measureText(text).width
\* in the BoxFontSize px font of the step: every character, the space
\* included, advances by GlyphAdvance pixels.
BoxFontSize == 16
GlyphAdvance == 10
measureTextWidth(text) == GlyphAdvance * Len(text)

\* Variant: centring that ignores the width of the line.
drawAlignedLine_HalfBox(alignment, text, lineX, lineY, maxWidth) ==
  [text |-> text,
   x2 |-> IF alignment = "center" THEN 2 * lineX + maxWidth
          ELSE IF alignment = "right" THEN 2 * (lineX + (maxWidth - measureTextWidth(text)))
          ELSE 2 * lineX,
   y5 |-> lineY]
\* drawAlignedLine: the ctx.fillText call it makes.  x2 is twice the x
\* coordinate, so that (maxWidth - width) / 2 is exact; lineY and y5 are
\* five times the y coordinate, so that the line height is exact.
drawAlignedLine(alignment, text, lineX, lineY, maxWidth) ==
  LET width == measureTextWidth(text)
      drawX2 == IF alignment = "center" THEN 2 * lineX + (maxWidth - width)
                ELSE IF alignment = "right" THEN 2 * (lineX + (maxWidth - width))
                ELSE 2 * lineX
  IN [text |-> text, x2 |-> drawX2, y5 |-> lineY]

\* String.prototype.split for a separator of one character.
RECURSIVE split(_, _)
split(text, sep) ==
  IF \A i \in 1 .. Len(text) : text[i] # sep
  THEN <<text>>
  ELSE LET i == CHOOSE k \in 1 .. Len(text) :
                  text[k] = sep /\ \A j \in 1 .. k - 1 : text[j] # sep
       IN <<SubSeq(text, 1, i - 1)>> \o split(SubSeq(text, i + 1, Len(text)), sep)

\* String.prototype.trim.
WhiteSpace == {" ", "\n"}
RECURSIVE trim(_)
trim(text) ==
  IF text = <<>> THEN text
  ELSE IF Head(text) \in WhiteSpace THEN trim(Tail(text))
  ELSE IF text[Len(text)] \in WhiteSpace THEN trim(SubSeq(text, 1, Len(text) - 1))
  ELSE text

\* The loop over the words of one paragraph, from the word at index n
\* (counted from 1) with the line built so far: the texts it draws.
RECURSIVE WrapWords(_, _, _, _)
WrapWords(words, n, line, maxWidth) ==
  IF n > Len(words)
  THEN <<trim(line)>>
  ELSE LET testLine == line \o words[n] \o <<" ">>
       IN IF measureTextWidth(testLine) > maxWidth /\ n > 1
          THEN <<trim(line)>> \o WrapWords(words, n + 1, words[n] \o <<" ">>, maxWidth)
          ELSE WrapWords(words, n + 1, testLine, maxWidth)

\* The texts drawn for the paragraphs, in order.
RECURSIVE WrapParagraphs(_, _)
WrapParagraphs(paragraphs, maxWidth) ==
  IF paragraphs = <<>> THEN <<>>
  ELSE WrapWords(split(Head(paragraphs), " "), 1, <<>>, maxWidth)
         \o WrapParagraphs(Tail(paragraphs), maxWidth)

\* The fillText calls of commitTextBox: currentY starts at the top of the
\* padded box and advances by lineHeight = boxFontSize * 1.2 after every
\* line drawn.
LineHeight5 == BoxFontSize * 6
TextBoxLines(box, text, alignment) ==
  LET maxWidth == box.w - BoxPadding * 2
      lines == WrapParagraphs(split(text, "\n"), maxWidth)
  IN [k \in 1 .. Len(lines) |->
        drawAlignedLine(alignment, lines[k], box.x + BoxPadding,
                        5 * (box.y + BoxPadding) + (k - 1) * LineHeight5, maxWidth)]

\* The pixels commitTextBox composites: the background rectangle, then the
\* text, of which the model paints the pixel at the origin of each line
\* that is not empty.
RECURSIVE PaintLines(_, _)
PaintLines(cv, calls) ==
  IF calls = <<>> THEN cv
  ELSE LET line == Head(calls)
           next == IF line.text = <<>> THEN cv
                   ELSE fillRect(cv, line.x2 \div 2, line.y5 \div 5, 1, 1, CssHex(BoxColor))
       IN PaintLines(next, Tail(calls))
TextBoxPaint(cv, box, text, alignment) ==
  PaintLines(fillRect(cv, box.x, box.y, box.w, box.h, CssHex(BoxBgColor)),
             TextBoxLines(box, text, alignment))

\* commitTextBox ("Valider")
commitTextBox ==
  /\ isEnteringText
  /\ IF pendingTextBox = NoBox
     THEN /\ UNCHANGED <<canvas, histVars, isEnteringText, pendingTextBox, boxText>>
          /\ Track("none")
     ELSE /\ canvas' = TextBoxPaint(canvas, pendingTextBox, boxText, boxAlignment)
          /\ LET s == saveStateOn(history, historyIndex, canvas')
             IN /\ history' = s.history
                /\ historyIndex' = s.historyIndex
          /\ isEnteringText' = FALSE
          /\ pendingTextBox' = NoBox
          /\ boxText' = <<>>
          /\ TrackDraw(PushEvent(history, historyIndex), held, onSaveCalls,
                       TextBoxLines(pendingTextBox, boxText, boxAlignment))
  /\ Len(history') <= MaxHistory
  /\ UNCHANGED <<ctx, loadVars, toolVars, gestureVars, viewVars, colourVars, boxAlignment,
                 features, painted>>

\* Variant: closing the step records a snapshot.
cancelTextBox_Saves ==
  /\ isEnteringText
  /\ isEnteringText' = FALSE
  /\ LET s == saveStateOn(history, historyIndex, canvas)
     IN /\ history' = s.history
        /\ historyIndex' = s.historyIndex
  /\ Len(history') <= MaxHistory
  /\ UNCHANGED <<bufVars, loadVars, toolVars, gestureVars, viewVars, colourVars,
                 pendingTextBox, boxText, boxAlignment, features, painted>>
  /\ Track("none")
\* The close and "Annuler" buttons of the text-box step.
cancelTextBox ==
  /\ isEnteringText
  /\ isEnteringText' = FALSE
  /\ UNCHANGED <<bufVars, loadVars, histVars, toolVars, gestureVars, viewVars, colourVars,
                 pendingTextBox, boxText, boxAlignment, features, painted>>
  /\ Track("none")

\* onChange of the text area.
setBoxText(t) ==
  /\ isEnteringText
  /\ boxText' = t
  /\ UNCHANGED <<bufVars, loadVars, histVars, toolVars, gestureVars, viewVars, colourVars,
                 isEnteringText, pendingTextBox, boxAlignment, features, painted>>
  /\ Track("none")

\* onClick of an alignment button of the step.
setBoxAlignment(a) ==
  /\ isEnteringText
  /\ ~features.wordBoxSimplified
  /\ boxAlignment' = a
  /\ UNCHANGED <<bufVars, loadVars, histVars, toolVars, gestureVars, viewVars, colourVars,
                 isEnteringText, pendingTextBox, boxText, features, painted>>
  /\ Track("none")

\* ------------------------------------------------------------------- save
\* Variant: the pixels encoded from the last to the first.
toDataURL_Reversed(cv) ==
  [mime |-> "image/png", width |-> cv.w, height |-> cv.h,
   data |-> [n \in 1 .. cv.w * cv.h |->
               cv.px[<<(cv.w * cv.h - n) % cv.w, (cv.w * cv.h - n) \div cv.w>>]]]
\* canvas.toDataURL('image/png'): the lossless encoding of the buffer, its
\* size and its pixels row by row.
toDataURL(cv) ==
  [mime |-> "image/png", width |-> cv.w, height |-> cv.h,
   data |-> [n \in 1 .. cv.w * cv.h |-> cv.px[<<(n - 1) % cv.w, (n - 1) \div cv.w>>]]]

\* handleSave: the save button.
handleSave ==
  /\ ~isEnteringText
  /\ UNCHANGED <<bufVars, loadVars, histVars, toolVars, gestureVars, viewVars, colourVars,
                 boxVars, features, painted>>
  /\ TrackOut("none", held, Append(onSaveCalls, toDataURL(canvas)))

\* ------------------------------------------------------------------ toolbar
\* Is the button that selects tool t rendered?
ToolButtonShown(t) ==
  CASE t = "remove-text" -> features.removeText
    [] t = "pipette" -> features.removeText /\ tool \in {"remove-text", "pipette"}
    [] t = "wand" -> features.removeColor
    [] t = "text-box" -> features.wordBox
    [] t \in {"brush", "eraser"} -> features.eraser
    [] t = "hand" -> TRUE

\* onClick of a tool button; the pipette button toggles and leaves prevTool.
selectTool(t) ==
  /\ ~isEnteringText
  /\ ToolButtonShown(t)
  /\ IF t = "pipette"
     THEN /\ tool' = IF tool = "pipette" THEN "remove-text" ELSE "pipette"
          /\ UNCHANGED prevTool
     ELSE /\ tool' = t
          /\ prevTool' = t
  /\ UNCHANGED <<bufVars, loadVars, histVars, gestureVars, viewVars, colourVars, boxVars,
                 features, painted>>
  /\ TrackHeld("none", "none")

\* The "Couleur Manuelle" checkbox.
toggleManualColor ==
  /\ ~isEnteringText
  /\ features.removeText /\ tool \in {"remove-text", "pipette"}
  /\ useManualColor' = ~useManualColor
  /\ UNCHANGED <<bufVars, loadVars, histVars, toolVars, gestureVars, viewVars, brushSize,
                 manualBgColor, boxVars, features, painted>>
  /\ Track("none")

\* ----------------------------------------------------------------- keyboard
\* A key event is [code, key, ctrl, inInput]: ctrl when Ctrl or Meta is held,
\* inInput when its target is an input or a textarea.  Space switches to
\* the hand tool; Ctrl with =, +, - or 0 zooms or resets the view.
ZoomInStep(s) == Min(10000, s + 200)
ZoomOutKeyStep(s) == Max(100, s - 200)

handleKeyDown(e) ==
  /\ IF ~e.inInput /\ e.code = "Space" /\ tool # "hand"
     THEN /\ prevTool' = tool
          /\ tool' = "hand"
     ELSE UNCHANGED toolVars
  /\ IF ~e.inInput /\ e.ctrl /\ e.key \in {"=", "+"}
     THEN scale' = ZoomInStep(scale) /\ UNCHANGED panOffset
     ELSE IF ~e.inInput /\ e.ctrl /\ e.key = "-"
     THEN scale' = ZoomOutKeyStep(scale) /\ UNCHANGED panOffset
     ELSE IF ~e.inInput /\ e.ctrl /\ e.key = "0"
     THEN /\ panOffset' = Pos(0, 0)
          /\ scale' = IF imageLoaded THEN FitScale(imageSize, isRotated) ELSE 1000
     ELSE UNCHANGED <<panOffset, scale>>
  /\ UNCHANGED <<bufVars, loadVars, histVars, gestureVars, isRotated, colourVars, boxVars,
                 features, painted>>
  /\ TrackHeld("none", IF ~e.inInput /\ e.code = "Space" /\ held = "none" THEN tool ELSE held)

handleKeyUp(e) ==
  /\ IF ~e.inInput /\ e.code = "Space" /\ tool = "hand"
     THEN tool' = prevTool
     ELSE UNCHANGED tool
  /\ UNCHANGED <<bufVars, loadVars, histVars, prevTool, gestureVars, viewVars, colourVars,
                 boxVars, features, painted>>
  /\ TrackHeld("none", IF e.code = "Space" THEN "none" ELSE held)

\* checkOrientation on a window resize, then the fit-scale effect.
checkOrientation(portraitNarrow) ==
  /\ isRotated' = (features.autoRotateEnabled /\ portraitNarrow)
  /\ scale' = IF isRotated' # isRotated /\ imageLoaded THEN FitScale(imageSize, isRotated')
              ELSE scale
  /\ UNCHANGED <<bufVars, loadVars, histVars, toolVars, gestureVars, panOffset, colourVars,
                 boxVars, features, painted>>
  /\ Track("none")

\* ------------------------------------------------------------------- view
\* resetView: the zoom bar's reset button.
resetView ==
  /\ ~isEnteringText
  /\ features.zoom
  /\ panOffset' = Pos(0, 0)
  /\ scale' = IF imageLoaded THEN FitScale(imageSize, isRotated) ELSE 1000
  /\ UNCHANGED <<bufVars, loadVars, histVars, toolVars, gestureVars, isRotated, colourVars,
                 boxVars, features, painted>>
  /\ Track("none")

\* The zoom bar's zoom-out button: Math.max(0.1, s - 0.1).
zoomOutButton ==
  /\ ~isEnteringText
  /\ features.zoom
  /\ scale' = Max(100, scale - 100)
  /\ UNCHANGED <<bufVars, loadVars, histVars, toolVars, gestureVars, panOffset, isRotated,
                 colourVars, boxVars, features, painted>>
  /\ Track("none")

\* The zoom bar's zoom-in button: Math.min(10, s + 0.2).
zoomInButton ==
  /\ ~isEnteringText
  /\ features.zoom
  /\ scale' = ZoomInStep(scale)
  /\ UNCHANGED <<bufVars, loadVars, histVars, toolVars, gestureVars, panOffset, isRotated,
                 colourVars, boxVars, features, painted>>
  /\ Track("none")

\* scale * Math.pow(1.1, delta / 100) for one wheel notch either way.
WheelScale(s, delta) ==
  IF delta = 100 THEN (s * 11) \div 10
  ELSE IF delta = -100 THEN (s * 10) \div 11
  ELSE s

\* Variant: a zoom that leaves the pan offset alone.
handleWheel_KeepsPan(e) ==
  /\ ~isEnteringText
  /\ e.ctrl
  /\ scale' = Min(Max(100, WheelScale(scale, -e.deltaY)), 10000)
  /\ UNCHANGED <<bufVars, loadVars, histVars, toolVars, gestureVars, panOffset, isRotated,
                 colourVars, boxVars, features, painted>>
  /\ Track("none")
\* Variant: a wheel event that also commits a snapshot.
handleWheel_Saves(e) ==
  /\ history' = saveStateOn(history, historyIndex, getImageData(canvas)).history
  /\ historyIndex' = saveStateOn(history, historyIndex, getImageData(canvas)).historyIndex
  /\ UNCHANGED <<bufVars, loadVars, toolVars, gestureVars, viewVars, colourVars, boxVars,
                 features, painted>>
  /\ Track("none")
\* handleWheel.  A wheel event is [ctrl, shift, deltaX, deltaY, at]; at is
\* the pointer position measured from the centre of the container.  The
\* ratio newScale / scale needs scale > 0, which floating point keeps.
handleWheel(e) ==
  /\ ~isEnteringText
  /\ IF e.ctrl
     THEN LET newScale == Min(Max(100, WheelScale(scale, -e.deltaY)), 10000)
          IN IF newScale # scale
             THEN /\ scale > 0
                  /\ panOffset' = Pos(e.at.x - ((e.at.x - panOffset.x) * newScale) \div scale,
                                      e.at.y - ((e.at.y - panOffset.y) * newScale) \div scale)
                  /\ scale' = newScale
             ELSE UNCHANGED <<panOffset, scale>>
     ELSE LET swap == e.shift /\ e.deltaX = 0
              dx == IF swap THEN e.deltaY ELSE e.deltaX
              dy == IF swap THEN 0 ELSE e.deltaY
          IN /\ panOffset' = IF isRotated THEN Pos(panOffset.x - dy, panOffset.y + dx)
                              ELSE Pos(panOffset.x - dx, panOffset.y - dy)
             /\ UNCHANGED scale
  /\ UNCHANGED <<bufVars, loadVars, histVars, toolVars, gestureVars, isRotated, colourVars,
                 boxVars, features, painted>>
  /\ Track("none")

\* ---------------------------------------------------------- specification
\* Pointer positions on screen.  A press at (1,1) maps to the buffer
\* corner (0,0); a drag from there to (3,2) selects the first two pixels
\* of the top row, to (3,1) an empty rectangle of zero height, to (1,2)
\* one of zero width.
PressPoint == Pos(1, 1)
DragPoints == {Pos(3, 2), Pos(3, 1), Pos(1, 2)}
Mouse(button, p) == [isTouch |-> FALSE, button |-> button, pts |-> <<p>>]
Touch(ps) == [isTouch |-> TRUE, button |-> 0, pts |-> ps]

EditTools == {"remove-text", "eraser", "wand", "brush", "text-box"}

\* No gesture is in progress.
Idle == ~isDrawing /\ ~isPanning

\* Editing sessions of a mouse user who waits for the image: left-button
\* gestures with the five drawing tools, the text-box step, undo and redo.
\* The toolbar lies outside the container, so the pointer reaches it only
\* after the mouseleave that ends the gesture.
Next ==
  \/ \E k \in ImageIds : Load(k)
  \/ imageLoaded /\ Idle /\ undo
  \/ imageLoaded /\ Idle /\ redo
  \/ imageLoaded /\ handlePointerDown(Mouse(0, PressPoint))
  \/ \E p \in DragPoints : imageLoaded /\ handlePointerMove(Mouse(0, p))
  \/ imageLoaded /\ handlePointerUp
  \/ imageLoaded /\ commitTextBox
  \/ imageLoaded /\ cancelTextBox
  \/ \E t \in EditTools : imageLoaded /\ Idle /\ selectTool(t)

Spec == Init /\ [][Next]_vars

\* ---------------------------------------------------------------- sessions
\* Whole editor sessions: pointer events may arrive before the image is
\* decoded, the decode may fail, and gestures include the middle button,
\* the hand tool, the Space key and two fingers.  The drawing tools are
\* the default text eraser and the wand.
PanLimit == 1
InPanLimit(p) == p.x \in 0 .. PanLimit /\ p.y \in 0 .. PanLimit

SessionPresses ==
  {Mouse(0, PressPoint), Mouse(1, PressPoint), Touch(<<Pos(1, 1), Pos(3, 1)>>)}
SessionMoves ==
  {Mouse(0, Pos(2, 2)), Touch(<<Pos(1, 1), Pos(1, 2)>>)}
SessionTools == {"remove-text", "wand", "hand"}
Space == [code |-> "Space", key |-> " ", ctrl |-> FALSE, inInput |-> FALSE]

SessionNext ==
  \/ Load(0)
  \/ DecodeFail
  \/ Idle /\ undo
  \/ Idle /\ redo
  \/ \E e \in SessionPresses : handlePointerDown(e)
  \/ \E e \in SessionMoves : handlePointerMove(e) /\ InPanLimit(panOffset')
  \/ handlePointerUp
  \/ \E t \in SessionTools : Idle /\ selectTool(t)
  \/ tool # "hand" /\ handleKeyDown(Space)
  \/ handleKeyUp(Space)

SessionSpec == Init /\ [][SessionNext]_vars

\* ------------------------------------------------------------- wand clicks
\* Images for the flood fill: the two-colour patterns on FillW x FillH
\* pixels with at most MaxPatch pixels of the first colour.  The second
\* colour is unrelated to the first, or at RGB distance 39 from it, or at
\* distance 40.
FillW == 3
FillH == 2
MaxPatch == 3
BlueNear == <<120, 120, 239, 255>>
BlueFar == <<120, 120, 240, 255>>
FillPairs == {<<Blue, Ink>>, <<Blue, BlueNear>>, <<Blue, BlueFar>>}
PatternImage(S, pair) ==
  [w |-> FillW, h |-> FillH,
   px |-> [p \in Pixels(FillW, FillH) |-> IF p \in S THEN pair[1] ELSE pair[2]]]
FillImages ==
  {PatternImage(S, pair) :
     S \in {T \in SUBSET Pixels(FillW, FillH) : Cardinality(T) <= MaxPatch}, pair \in FillPairs}
FillPoints == {Pos(p[1] + RectLeft, p[2] + RectTop) : p \in Pixels(FillW, FillH)}

\* Sessions of wand clicks on a freshly loaded image, up to the first fill.
FillNext ==
  \/ \E img \in FillImages : onload(img)
  \/ selectTool("wand")
  \/ \E p \in FillPoints :
       imageLoaded /\ tool = "wand" /\ historyIndex = 0 /\ handlePointerDown(Mouse(0, p))

FillSpec == Init /\ [][FillNext]_vars

\* ------------------------------------------------------ repeated wand clicks
\* Sessions of a wand click on a freshly loaded image followed by clicks on
\* the pixel just filled.
RefillNext ==
  \/ \E img \in FillImages : onload(img)
  \/ selectTool("wand")
  \/ \E p \in FillPoints :
       /\ imageLoaded /\ tool = "wand"
       /\ \/ historyIndex = 0
          \/ last = "push" /\ getMousePos(Mouse(0, p), canvas, isRotated) = startPos
       /\ handlePointerDown(Mouse(0, p))
RefillSpec == Init /\ [][RefillNext]_vars
\* ------------------------------------------------------- text-eraser drags
\* Decoded images of RingW x RingH pixels made of three runs of colours in
\* row-major order, and one drag over the pixel at (1, 1): the sampled
\* region is the whole image and its outermost pixels are the samples.
RingW == 4
RingH == 3
PaperB == <<238, 242, 237, 255>>
RingColours == {Paper, PaperB, Ink, Blue}
RunImage(i, j, cs) ==
  [w |-> RingW, h |-> RingH,
   px |-> [p \in Pixels(RingW, RingH) |->
             LET n == p[2] * RingW + p[1]
             IN IF n < i THEN cs[1] ELSE IF n < j THEN cs[2] ELSE cs[3]]]
RingImages ==
  {RunImage(c[1], c[2], cs) :
     c \in {d \in (0 .. RingW * RingH) \X (0 .. RingW * RingH) : d[1] <= d[2]},
     cs \in RingColours \X RingColours \X RingColours}
RingPress == Mouse(0, Pos(RectLeft + 1, RectTop + 1))
RingDrag == Mouse(0, Pos(RectLeft + 2, RectTop + 2))

InferNext ==
  \/ \E img \in RingImages : onload(img)
  \/ Idle /\ toggleManualColor
  \/ imageLoaded /\ historyIndex = 0 /\ handlePointerDown(RingPress)
  \/ handlePointerMove(RingDrag)
  \/ handlePointerUp
InferSpec == Init /\ [][InferNext]_vars

\* ------------------------------------------------------------ pan and zoom
\* Sessions that move the view around a text-eraser edit: hand and
\* middle-button drags, pinches, wheel scrolls and zooms, the zoom keys
\* and the zoom bar.  The view is kept within a window of offsets and within
\* ZoomDepth zoom steps of the fitted scale; the orientation
\* is settled before the image arrives.
ZoomDepth == 1
ZoomOps(s) ==
  {ZoomInStep(s), ZoomOutKeyStep(s), Max(100, s - 100), WheelScale(s, 100),
   WheelScale(s, -100), PinchScale(s, 1, 2)}
RECURSIVE ScalesWithin(_, _)
ScalesWithin(S, n) ==
  IF n = 0 THEN S ELSE ScalesWithin(S \cup UNION {ZoomOps(s) : s \in S}, n - 1)
InView(p, s) ==
  /\ InPanLimit(p)
  /\ s \in ScalesWithin(IF imageLoaded THEN {FitScale(imageSize, isRotated)} ELSE {1000},
                         ZoomDepth)
Wheel(ctrl, shift, dx, dy) ==
  [ctrl |-> ctrl, shift |-> shift, deltaX |-> dx, deltaY |-> dy, at |-> Pos(0, 0)]
WheelEvents ==
  {Wheel(TRUE, FALSE, 0, 100), Wheel(TRUE, FALSE, 0, -100),
   Wheel(FALSE, FALSE, 0, 1), Wheel(FALSE, FALSE, -1, 0), Wheel(FALSE, TRUE, 0, -1)}
Key(k) == [code |-> "Key", key |-> k, ctrl |-> TRUE, inInput |-> FALSE]
ZoomKeys == {Key("="), Key("-"), Key("0")}
ViewTools == {"hand", "remove-text"}

\* The presses that start a pan or a pinch rather than a drawing.
StartsPan(e) == IsTwoFinger(e) \/ e.button = 1 \/ tool = "hand"

ViewNext ==
  \/ Load(1)
  \/ \E b \in BOOLEAN : ~imageLoaded /\ Idle /\ checkOrientation(b)
  \/ \E t \in ViewTools : Idle /\ selectTool(t)
  \/ \E e \in SessionPresses :
       /\ imageLoaded /\ (historyIndex = 0 \/ StartsPan(e))
       /\ handlePointerDown(e)
  \/ \E e \in SessionMoves : handlePointerMove(e) /\ InView(panOffset', scale')
  \/ handlePointerUp
  \/ Idle /\ undo
  \/ \E e \in WheelEvents : Idle /\ handleWheel(e) /\ InView(panOffset', scale')
  \/ \E e \in ZoomKeys : Idle /\ handleKeyDown(e) /\ InView(panOffset', scale')
  \/ Idle /\ zoomOutButton /\ InView(panOffset', scale')
  \/ Idle /\ zoomInButton /\ InView(panOffset', scale')
  \/ Idle /\ resetView
ViewSpec == Init /\ [][ViewNext]_vars

\* ---------------------------------------------------------- touch sessions
\* Touch-only sessions with the rectangle eraser and the brush: one finger
\* presses and drags, a second finger may land and the two may move.
OneFinger(p) == Touch(<<p>>)
SecondFingerDown == Touch(<<PressPoint, Pos(3, 1)>>)
TwoFingerMove == Touch(<<Pos(1, 1), Pos(1, 2)>>)
TouchTools == {"eraser", "brush"}

TouchNext ==
  \/ Load(1)
  \/ \E t \in TouchTools : Idle /\ selectTool(t)
  \/ imageLoaded /\ handlePointerDown(OneFinger(PressPoint))
  \/ \E p \in DragPoints :
       imageLoaded /\ handlePointerMove(OneFinger(p)) /\ InPanLimit(panOffset')
  \/ imageLoaded /\ handlePointerDown(SecondFingerDown)
  \/ handlePointerMove(TwoFingerMove) /\ InPanLimit(panOffset')
  \/ handlePointerUp
TouchSpec == Init /\ [][TouchNext]_vars

\* ---------------------------------------------------------- text-box step
\* Sessions around the text-box step: drags with the text-box tool, typing,
\* "Valider" and "Annuler", the tool buttons and the Space key.  A key
\* event has an input or the text area as its target only while one is
\* shown: the text area of the step, the colour controls of the text
\* eraser, the size slider of the brush and the eraser.
InputShown ==
  \/ isEnteringText
  \/ features.removeText /\ tool \in {"remove-text", "pipette"}
  \/ features.eraser /\ tool \in {"brush", "eraser"}
SpaceInInput == [code |-> "Space", key |-> " ", ctrl |-> FALSE, inInput |-> TRUE]
SpaceKeys == {Space, SpaceInInput}
BoxTexts == {<<"a">>}
BoxTools == {"text-box", "hand", "remove-text"}

BoxNext ==
  \/ Load(1)
  \/ \E t \in BoxTools : Idle /\ selectTool(t)
  \/ imageLoaded /\ handlePointerDown(Mouse(0, PressPoint))
  \/ \E p \in DragPoints :
       imageLoaded /\ handlePointerMove(Mouse(0, p)) /\ InPanLimit(panOffset')
  \/ imageLoaded /\ handlePointerUp
  \/ \E t \in BoxTexts : setBoxText(t)
  \/ commitTextBox
  \/ cancelTextBox
  \/ \E e \in SpaceKeys : (e.inInput => InputShown) /\ handleKeyDown(e)
  \/ \E e \in SpaceKeys : (e.inInput => InputShown) /\ handleKeyUp(e)
BoxSpec == Init /\ [][BoxNext]_vars

\* ---------------------------------------------------------- feature flags
\* Sessions of the editor opened with every feature enabled or with the
\* editing and zoom features disabled, on an image that fits the container
\* or on one WideW pixels wide: the tool buttons that are shown, the Space
\* and zoom keys, the wheel, the zoom bar and a pinch.
ViewerOnly ==
  [removeText |-> FALSE, removeColor |-> FALSE, wordBox |-> FALSE, wordBoxSimplified |-> FALSE,
   eraser |-> FALSE, zoom |-> FALSE, undoRedo |-> TRUE, autoRotateEnabled |-> TRUE]
WideW == 11
WideImage == [w |-> WideW, h |-> 1, px |-> [p \in Pixels(WideW, 1) |-> Paper]]
FlagImages == {DecodedImage(1), WideImage}

FlagInit == InitWith({AllFeatures, ViewerOnly})
FlagNext ==
  \/ \E img \in FlagImages : onload(img)
  \/ \E t \in Tools : Idle /\ selectTool(t)
  \/ handleKeyDown(Space)
  \/ handleKeyUp(Space)
  \/ \E e \in ZoomKeys : handleKeyDown(e) /\ InView(panOffset', scale')
  \/ \E e \in WheelEvents : handleWheel(e) /\ InView(panOffset', scale')
  \/ zoomOutButton /\ InView(panOffset', scale')
  \/ zoomInButton /\ InView(panOffset', scale')
  \/ resetView
  \/ imageLoaded /\ handlePointerDown(SecondFingerDown)
  \/ handlePointerMove(TwoFingerMove) /\ InView(panOffset', scale')
  \/ handlePointerUp
FlagSpec == FlagInit /\ [][FlagNext]_vars

\* ------------------------------------------------------------ canvas edges
\* Sessions whose pointer events fall inside the container on and around
\* the canvas: above and left of it, on its first pixel, below and right
\* of it, in normal and in rotated mode.
EdgePoints == {Pos(RectLeft - 1, RectTop - 1), Pos(RectLeft, RectTop), Pos(RectLeft + 3, RectTop + 3)}
EdgeTools == {"wand", "pipette", "remove-text"}

EdgeNext ==
  \/ Load(1)
  \/ \E b \in BOOLEAN : ~imageLoaded /\ checkOrientation(b)
  \/ \E t \in EdgeTools : Idle /\ selectTool(t)
  \/ \E p \in EdgePoints : imageLoaded /\ handlePointerDown(Mouse(0, p))
  \/ \E p \in EdgePoints : imageLoaded /\ handlePointerMove(Mouse(0, p))
  \/ imageLoaded /\ handlePointerUp
EdgeSpec == Init /\ [][EdgeNext]_vars

\* ------------------------------------------------------------------ saving
\* Sessions that edit with the text eraser and the brush, undo and save;
\* at most MaxSaves saves are followed.
MaxSaves == 1
SaveTools == {"brush"}

SaveNext ==
  \/ Load(1)
  \/ \E t \in SaveTools : Idle /\ selectTool(t)
  \/ imageLoaded /\ handlePointerDown(Mouse(0, PressPoint))
  \/ \E p \in DragPoints : imageLoaded /\ handlePointerMove(Mouse(0, p))
  \/ imageLoaded /\ handlePointerUp
  \/ Idle /\ undo
  \/ Idle /\ Len(onSaveCalls) < MaxSaves /\ handleSave
SaveSpec == Init /\ [][SaveNext]_vars

\* ---------------------------------------------------------- text alignment
\* Sessions of the text-box step on boxes of several widths: a one-word
\* text is typed, an alignment is chosen and the box is committed.  The
\* drags end beside the canvas, where positions are used as they are.
AlignBoxWidths == {120, 55, 25}
AlignDragPoints == {Pos(PressPoint.x + w, PressPoint.y + 1) : w \in AlignBoxWidths}
AlignTexts == {<<"a", "b", "c", "d">>, <<"a">>}
Alignments == {"left", "center", "right"}

AlignNext ==
  \/ Load(1)
  \/ Idle /\ selectTool("text-box")
  \/ imageLoaded /\ tool = "text-box" /\ handlePointerDown(Mouse(0, PressPoint))
  \/ \E p \in AlignDragPoints : imageLoaded /\ handlePointerMove(Mouse(0, p))
  \/ imageLoaded /\ handlePointerUp
  \/ \E t \in AlignTexts : setBoxText(t)
  \/ \E a \in Alignments : setBoxAlignment(a)
  \/ commitTextBox
  \/ cancelTextBox
AlignSpec == Init /\ [][AlignNext]_vars

\* ----------------------------------------------------------- brush strokes
\* Sessions of brush strokes whose release lies off the row and the column
\* of the press, with the Space key pressed and released at any moment.
StrokeEnd == Pos(3, 2)

StrokeNext ==
  \/ Load(1)
  \/ Idle /\ selectTool("brush")
  \/ imageLoaded /\ Idle /\ handlePointerDown(Mouse(0, PressPoint))
  \/ imageLoaded /\ handlePointerMove(Mouse(0, StrokeEnd)) /\ InPanLimit(panOffset')
  \/ imageLoaded /\ handlePointerUp
  \/ Idle /\ undo
  \/ tool # "hand" /\ handleKeyDown(Space)
  \/ handleKeyUp(Space)
StrokeSpec == Init /\ [][StrokeNext]_vars

\* ----------------------------------------------------------------- pinches
\* Sessions whose only pointer events are those of two-finger gestures:
\* the two fingers land in one touch-start, or one finger lands and the
\* second follows at once; then the fingers move and lift.
PinchTools == {"remove-text", "eraser", "wand", "brush", "pipette", "hand"}

PinchNext ==
  \/ Load(1)
  \/ \E t \in PinchTools : Idle /\ ~firstTouch /\ selectTool(t)
  \/ imageLoaded /\ Idle /\ ~firstTouch /\ handlePointerDown(OneFinger(PressPoint))
  \/ imageLoaded /\ (Idle \/ firstTouch) /\ handlePointerDown(SecondFingerDown)
  \/ isPanning /\ handlePointerMove(TwoFingerMove) /\ InPanLimit(panOffset')
  \/ isPanning /\ handlePointerUp
  \/ Idle /\ ~firstTouch /\ undo
PinchSpec == Init /\ [][PinchNext]_vars

\* ------------------------------------------------------------ eraser drags
\* Sessions of one rectangle-eraser or text-eraser drag between the points
\* of EraseCorners, in every direction, on an image of three runs of
\* colours, with the manual colour picked from the image and the manual
\* mode switched on and off.
EraseImage == RunImage(2, 7, <<Blue, Paper, Ink>>)
EraseCorners ==
  {Pos(RectLeft, RectTop), Pos(RectLeft + 1, RectTop + 1), Pos(RectLeft + 3, RectTop + 2),
   Pos(RectLeft + 3, RectTop + 1), Pos(RectLeft + 1, RectTop + 2)}
EraseTools == {"eraser", "remove-text", "pipette"}

EraseNext ==
  \/ onload(EraseImage)
  \/ \E t \in EraseTools : Idle /\ selectTool(t)
  \/ Idle /\ toggleManualColor
  \/ \E p \in EraseCorners : imageLoaded /\ historyIndex = 0 /\ handlePointerDown(Mouse(0, p))
  \/ \E p \in EraseCorners : imageLoaded /\ handlePointerMove(Mouse(0, p))
  \/ imageLoaded /\ handlePointerUp
EraseSpec == Init /\ [][EraseNext]_vars

\* ---------------------------------------------------------- pointer mapping
\* getMousePos under the view transform.  The canvas is centred in the
\* container and drawn under translate(panOffset) scale(scale) about its
\* centre; in rotated mode the whole editor is turned by 90 degrees, so the
\* bounding rectangle has the scaled buffer height as its width and the pan
\* (x, y) moves it by (-y, x) on screen.  Lengths are in thousandths of a
\* pixel.
ScreenRect(cv, rotated, s, pan) ==
  LET w == cv.w * s
      h == cv.h * s
      rw == IF rotated THEN h ELSE w
      rh == IF rotated THEN w ELSE h
      cx == ContainerW * 500 + 1000 * (IF rotated THEN -pan.y ELSE pan.x)
      cy == ContainerH * 500 + 1000 * (IF rotated THEN pan.x ELSE pan.y)
  IN [left |-> cx - rw \div 2, top |-> cy - rh \div 2, width |-> rw, height |-> rh,
      right |-> cx - rw \div 2 + rw, bottom |-> cy - rh \div 2 + rh]

\* getMousePos applied to the event e; the position is kept as the start
\* and the current position.
locate(e) ==
  /\ ~isEnteringText
  /\ startPos' = MousePosIn(ScreenRect(canvas, isRotated, scale, panOffset),
                            Pos(1000 * ClientPoint(e).x, 1000 * ClientPoint(e).y),
                            canvas, isRotated)
  /\ currentPos' = startPos'
  /\ UNCHANGED <<bufVars, loadVars, histVars, toolVars, isDrawing, isPanning, lastPanPos,
                 lastTouchDistance, viewVars, colourVars, boxVars, features, painted>>
  /\ Track("none")

\* Views of the loaded image in normal and rotated mode, zoomed in by up
\* to MapZooms steps of the zoom bar and scrolled within the pan window,
\* and pointer positions around the centre of the container.
MapZooms == 6
MapPoints == {Pos(x, y) : x \in 19 .. 22, y \in 19 .. 22}
MapNext ==
  \/ Load(1)
  \/ \E b \in BOOLEAN : ~imageLoaded /\ checkOrientation(b)
  \/ imageLoaded /\ zoomInButton
       /\ scale' <= FitScale(imageSize, isRotated) + 200 * MapZooms
  \/ \E d \in {<<0, 1>>, <<0, -1>>, <<1, 0>>, <<-1, 0>>} :
       imageLoaded /\ handleWheel(Wheel(FALSE, FALSE, d[1], d[2])) /\ InPanLimit(panOffset')
  \/ \E c \in MapPoints : imageLoaded /\ locate(Mouse(0, c))
MapSpec == Init /\ [][MapNext]_vars

\* ------------------------------------------------------------- wheel zooms
\* Zooms of the loaded image with the modifier held and the pointer at
\* ZoomAt, in from the fitted scale up to the upper bound and out from it
\* down to the lower bound, after scrolls within the pan window.
ZoomAt == Pos(30, -20)
ZoomIn == [ctrl |-> TRUE, shift |-> FALSE, deltaX |-> 0, deltaY |-> -100, at |-> ZoomAt]
ZoomOut == [ctrl |-> TRUE, shift |-> FALSE, deltaX |-> 0, deltaY |-> 100, at |-> ZoomAt]
ZoomNext ==
  \/ Load(1)
  \/ \E d \in {<<0, -1>>, <<-1, 0>>} :
       /\ imageLoaded /\ scale = FitScale(imageSize, isRotated)
       /\ handleWheel(Wheel(FALSE, FALSE, d[1], d[2])) /\ InPanLimit(panOffset')
  \/ imageLoaded /\ scale >= FitScale(imageSize, isRotated) /\ handleWheel(ZoomIn)
  \/ imageLoaded /\ scale <= FitScale(imageSize, isRotated) /\ handleWheel(ZoomOut)
ZoomSpec == Init /\ [][ZoomNext]_vars

\* -------------------------------------------------------------- word wrap
\* Sessions of the text-box step on boxes of inner widths 50, 60 and 30:
\* a text of several words is typed and committed.  The texts are
\* "ab cd", "ab cd ef", "abcdefg hi", "ab" newline "cd e", and "a b c d".
WrapBoxWidths == {70, 80, 50}
WrapDragPoints == {Pos(PressPoint.x + w, PressPoint.y + 1) : w \in WrapBoxWidths}
WrapTexts ==
  {<<"a", "b", " ", "c", "d">>,
   <<"a", "b", " ", "c", "d", " ", "e", "f">>,
   <<"a", "b", "c", "d", "e", "f", "g", " ", "h", "i">>,
   <<"a", "b", "\n", "c", "d", " ", "e">>,
   <<"a", " ", "b", " ", "c", " ", "d">>}
WrapNext ==
  \/ Load(1)
  \/ Idle /\ selectTool("text-box")
  \/ imageLoaded /\ tool = "text-box" /\ handlePointerDown(Mouse(0, PressPoint))
  \/ \E p \in WrapDragPoints : imageLoaded /\ handlePointerMove(Mouse(0, p))
  \/ imageLoaded /\ handlePointerUp
  \/ \E t \in WrapTexts : setBoxText(t)
  \/ \E a \in {"left", "right"} : setBoxAlignment(a)
  \/ commitTextBox
WrapSpec == Init /\ [][WrapNext]_vars

\* ---------------------------------------------------------------- feedback
\* The feedback relay of server.ts.  A request is [pc, type, sent]: pc is
\* "none", "posted" (received, handler not yet run), "fetching" (the
\* handler awaits the webhook call), "thrown" (the handler's promise was
\* rejected and nothing answers the request) or "closed"; type is the
\* body's type field, NoType when the body has none; sent holds the
\* responses written so far.
NoType == "undefined"
BodyTypes == {"bug", "idea", NoType}
Reply(status, body) == [status |-> status, body |-> body]
editorVars ==
  <<bufVars, loadVars, histVars, toolVars, gestureVars, viewVars, colourVars, boxVars,
    features, last, seq, painted, held, onSaveCalls, fillTextCalls, firstTouch>>

\* A client posts a body: the feedback form always sends a type, another
\* client may leave it out.
postFeedback(r, type) ==
  /\ requests[r].pc = "none"
  /\ requests' = [requests EXCEPT ![r] = [pc |-> "posted", type |-> type, sent |-> <<>>]]
  /\ UNCHANGED <<editorVars, webhookUrl>>

\* What becomes of a request whose async handler throws: express 4 leaves
\* the rejected promise alone and the request unanswered, express 5 passes
\* the error to its error handler, which answers with status 500.
ThrowOutcomes == {"unanswered", "errorHandler"}

\* The handler up to its await: the webhook check, the payload, the fetch.
feedbackHandler(r) ==
  /\ requests[r].pc = "posted"
  /\ IF ~webhookUrl
     THEN requests' = [requests EXCEPT ![r].pc = "closed",
                                       ![r].sent = Append(@, Reply(500, "Webhook not configured"))]
     ELSE IF requests[r].type = NoType
     THEN \E o \in ThrowOutcomes :
            requests' = IF o = "unanswered"
                        THEN [requests EXCEPT ![r].pc = "thrown"]
                        ELSE [requests EXCEPT ![r].pc = "closed",
                                              ![r].sent = Append(@, Reply(500, "TypeError"))]
     ELSE requests' = [requests EXCEPT ![r].pc = "fetching"]
  /\ UNCHANGED <<editorVars, webhookUrl>>

\* The handler after its await: the webhook call answered OK, answered
\* with an error status, or failed.
FetchOutcomes == {"ok", "notOk", "rejected"}
fetchSettles(r, o) ==
  /\ requests[r].pc = "fetching"
  /\ requests' =
       [requests EXCEPT
          ![r].pc = "closed",
          ![r].sent = Append(@, CASE o = "ok" -> Reply(200, "success")
                                  [] o = "notOk" -> Reply(500, "Failed to send to Discord")
                                  [] OTHER -> Reply(500, "Internal server error"))]
  /\ UNCHANGED <<editorVars, webhookUrl>>

FeedbackInit == InitEnv({AllFeatures}, BOOLEAN)
FeedbackNext ==
  \/ \E r \in RequestIds, type \in BodyTypes : postFeedback(r, type)
  \/ \E r \in RequestIds : feedbackHandler(r)
  \/ \E r \in RequestIds, o \in FetchOutcomes : fetchSettles(r, o)
\* The event loop runs every handler that is due, and every webhook call
\* settles: it is answered, or it fails.
FeedbackSpec ==
  /\ FeedbackInit /\ [][FeedbackNext]_vars
  /\ \A r \in RequestIds :
       /\ WF_vars(feedbackHandler(r))
       /\ WF_vars(\E o \in FetchOutcomes : fetchSettles(r, o))

\* ================================================================ properties
\* The left-button press of the editing sessions.
Press == Mouse(0, PressPoint)

\* A step of a handler that can commit, and that changed the history.
CommitStep ==
  /\ handlePointerDown(Press) \/ handlePointerUp \/ commitTextBox
  /\ histVars' # histVars

\* C1: after the load, N >= 1 committed operations followed by N undos
\* leave the buffer pixel-identical to the baseline recorded at the load.
C1_UndoAllRestoresBaseline ==
  (seq.phase = "undos" /\ seq.u = seq.n) => canvas = seq.base

C1_Witness ==
  /\ seq.phase = "undos" /\ seq.n = 2 /\ seq.u = 2
  /\ history[2] # history[1] /\ history[3] # history[2]

\* C2: wherever undo is possible and no gesture is in progress, undo
\* followed by redo gives back the buffer as it was before the undo.
C2_UndoRedoRoundTrip ==
  (Idle /\ CanUndo(historyIndex)) =>
    LET u == undoOn(history, historyIndex, canvas)
        r == redoOn(history, u.historyIndex, u.canvas)
    IN r.canvas = canvas

\* C3: a snapshot pushed after undos becomes the last entry, the entries
\* up to the one that was current are kept as they were, every entry
\* after it is gone, and redo then does nothing.
C3_PushPrunesRedoTail ==
  [][(CommitStep /\ historyIndex < Len(history) - 1) =>
       /\ historyIndex' = Len(history') - 1
       /\ Len(history') = historyIndex + 2
       /\ \A i \in 1 .. historyIndex + 1 : history'[i] = history[i]
       /\ redoOn(history', historyIndex', canvas') =
            [historyIndex |-> historyIndex', canvas |-> canvas', ev |-> "redoTop"]]_vars

C3_Witness ==
  /\ last = "prune"
  /\ Len(history) = 2 /\ historyIndex = 1

\* C5: undo at index 0 or on an empty history, and redo at the last
\* index, change neither the buffer nor the history nor the index and
\* raise no error; the undo and the redo button are disabled exactly in
\* the states where the call would change nothing.
C5_NoOpAtEnds ==
  /\ [](/\ UndoDisabled(historyIndex) <=>
             (undoOn(history, historyIndex, canvas).historyIndex = historyIndex)
        /\ RedoDisabled(history, historyIndex) <=>
             (redoOn(history, historyIndex, canvas).historyIndex = historyIndex))
  /\ [][/\ (undo /\ historyIndex <= 0) =>
             (UNCHANGED <<canvas, history, historyIndex>> /\ last' # "error")
        /\ (redo /\ historyIndex >= Len(history) - 1) =>
             (UNCHANGED <<canvas, history, historyIndex>> /\ last' # "error")]_vars

C5_Witness ==
  \/ last = "undo0" /\ historyIndex = 0 /\ Len(history) > 1
  \/ last = "redoTop" /\ historyIndex = Len(history) - 1 /\ Len(history) > 1

\* C6: the release of a brush gesture that painted at least one segment
\* pushes exactly one snapshot, of the painted buffer, wherever the
\* gesture's last position lies.
C6_BrushGestureCommits ==
  [][(handlePointerUp /\ isDrawing /\ ~isPanning /\ tool = "brush" /\ painted) =>
       /\ historyIndex' = historyIndex + 1
       /\ Len(history') = historyIndex + 2
       /\ history'[Len(history')] = getImageData(canvas)]_vars

\* C7: releasing a drag whose rectangle has zero width or zero height,
\* with the rectangle eraser, the text eraser or the text-box tool,
\* changes neither the buffer nor the history and opens no text-box step.
C7_DegenerateDragIgnored ==
  [][(/\ handlePointerUp /\ isDrawing /\ ~isPanning
      /\ tool \in {"eraser", "remove-text", "text-box"}
      /\ (startPos.x = currentPos.x \/ startPos.y = currentPos.y)) =>
       UNCHANGED <<canvas, history, historyIndex, isEnteringText, pendingTextBox>>]_vars

C7_Witness ==
  /\ last = "drop" /\ tool \in {"eraser", "remove-text", "text-box"}
  /\ startPos # currentPos

\* C10: a wand click on a seed pixel whose three channels all exceed 240,
\* or all lie below 50, changes neither the buffer nor the history and
\* raises no error.
SeedOf(e) == PixelAt(canvas, getMousePos(e, canvas, isRotated).x, getMousePos(e, canvas, isRotated).y)
SeedNearWhite(c) == c[1] > 240 /\ c[2] > 240 /\ c[3] > 240
SeedNearBlack(c) == c[1] < 50 /\ c[2] < 50 /\ c[3] < 50

C10_WandRefusesExtremes ==
  [][(/\ handlePointerDown(Press) /\ tool = "wand"
      /\ (SeedNearWhite(SeedOf(Press)) \/ SeedNearBlack(SeedOf(Press)))) =>
       (UNCHANGED <<canvas, history, historyIndex>> /\ last' # "error")]_vars

C10_Witness ==
  /\ last = "refuse" /\ tool = "wand"
  /\ SeedNearBlack(PixelAt(canvas, startPos.x, startPos.y))

\* The pointer steps of the sessions, and those at which a tool commits.
PointerDownStep == \E e \in SessionPresses : handlePointerDown(e)
PointerMoveStep == \E e \in SessionMoves : handlePointerMove(e)
StartsGesture(e) == IsTwoFinger(e) \/ e.button = 1 \/ tool # "wand"
SessionCommitStep ==
  \/ \E e \in SessionPresses : handlePointerDown(e) /\ ~StartsGesture(e)
  \/ handlePointerUp /\ isDrawing /\ ~isPanning
  \/ commitTextBox

\* C4: historyIndex is -1 exactly when the history is empty, and
\* otherwise points at one of its entries.
C4_IndexInRange ==
  /\ (historyIndex = -1) <=> (history = <<>>)
  /\ history # <<>> => (0 <= historyIndex /\ historyIndex < Len(history))

C4_Witness ==
  /\ last = "undo"
  /\ Len(history) = 3 /\ historyIndex = 0

\* C8: before the image has been decoded and the baseline recorded, no
\* pointer event changes the buffer or the history.
C8_NoMutationBeforeLoad ==
  [][(~imageLoaded /\ (PointerDownStep \/ PointerMoveStep \/ handlePointerUp)) =>
       UNCHANGED <<canvas, history, historyIndex>>]_vars

WithinForty(c, t) ==
  (c[1] - t[1]) * (c[1] - t[1]) + (c[2] - t[2]) * (c[2] - t[2])
    + (c[3] - t[3]) * (c[3] - t[3]) < 1600
Adjacent(p, q) == Abs(p[1] - q[1]) + Abs(p[2] - q[2]) = 1
RECURSIVE Grow(_, _, _)
Grow(cv, t, R) ==
  LET more == {q \in Pixels(cv.w, cv.h) \ R :
                 WithinForty(cv.px[q], t) /\ \E r \in R : Adjacent(q, r)}
  IN IF more = {} THEN R ELSE Grow(cv, t, R \cup more)
Region(cv, seed) == Grow(cv, cv.px[seed], {seed})
SeedPixel(e) ==
  <<getMousePos(e, canvas, isRotated).x, getMousePos(e, canvas, isRotated).y>>

C11_FloodFillRegion ==
  [][\A pt \in FillPoints :
       (/\ handlePointerDown(Mouse(0, pt)) /\ tool = "wand"
        /\ SeedPixel(Mouse(0, pt)) \in Pixels(canvas.w, canvas.h)
        /\ ~SeedNearWhite(canvas.px[SeedPixel(Mouse(0, pt))])
        /\ ~SeedNearBlack(canvas.px[SeedPixel(Mouse(0, pt))])) =>
         \A q \in Pixels(canvas.w, canvas.h) :
           canvas'.px[q] = IF q \in Region(canvas, SeedPixel(Mouse(0, pt)))
                           THEN <<255, 255, 255, 255>> ELSE canvas.px[q]]_vars

\* A fill that left a pixel of the seed's colour untouched.
C11_Witness ==
  /\ last = "push" /\ tool = "wand" /\ Len(history) = 2
  /\ canvas.px[<<startPos.x, startPos.y>>] = White
  /\ \E q \in Pixels(canvas.w, canvas.h) :
       /\ history[1].px[q] = history[1].px[<<startPos.x, startPos.y>>]
       /\ canvas.px[q] = history[1].px[q]
       /\ canvas.px[q] # White


\* C12: with no manual colour, the colour a text-eraser commit fills with
\* lies in a width-5 quantization bucket that holds the largest number of
\* the perimeter samples of the sampled ring that are not discarded as
\* dark; a ring that is nine tenths (240,240,235) and one tenth near-black
\* gives a fill in the bucket of (240,240,235).
\* The multiple of 5 within 2 of v.
NearestFive(v) == v + 2 - ((v + 2) % 5)
BucketOf(c) == <<NearestFive(c[1]), NearestFive(c[2]), NearestFive(c[3])>>
Discarded(c) == c[1] < 80 /\ c[2] < 80 /\ c[3] < 80
\* The samples: the outermost pixels of the region two pixels around r,
\* cut to the canvas.
RingSamples(cv, r) ==
  LET x0 == Max(0, r.x - 2)
      y0 == Max(0, r.y - 2)
      x1 == x0 + Min(cv.w - x0, r.w + 4) - 1
      y1 == y0 + Min(cv.h - y0, r.h + 4) - 1
  IN {p \in Pixels(cv.w, cv.h) :
        /\ x0 <= p[1] /\ p[1] <= x1 /\ y0 <= p[2] /\ p[2] <= y1
        /\ (p[1] = x0 \/ p[1] = x1 \/ p[2] = y0 \/ p[2] = y1)}
BucketCount(cv, r, b) ==
  Cardinality({p \in RingSamples(cv, r) : ~Discarded(cv.px[p]) /\ BucketOf(cv.px[p]) = b})
TextEraserCommit ==
  /\ handlePointerUp /\ isDrawing /\ ~isPanning /\ tool = "remove-text"
  /\ ~useManualColor /\ last' = "push"

PanZoomStep ==
  \/ \E e \in WheelEvents : handleWheel(e)
  \/ \E e \in ZoomKeys : handleKeyDown(e)
  \/ zoomOutButton \/ zoomInButton \/ resetView
  \/ \E e \in SessionPresses : handlePointerDown(e) /\ StartsPan(e)
  \/ \E e \in SessionMoves : handlePointerMove(e) /\ isPanning
  \/ handlePointerUp /\ isPanning

C13_PanZoomLeavesBuffer ==
  [][PanZoomStep =>
       /\ canvas' = canvas /\ history' = history /\ historyIndex' = historyIndex
       /\ UNCHANGED <<ctx, loadVars, toolVars, isRotated, colourVars, boxVars, features>>]_vars

\* A pinch in progress after an edit, with the view zoomed and moved.
C13_Witness ==
  /\ historyIndex = 1 /\ canvas # history[1]
  /\ isPanning /\ lastTouchDistance # NoDistance
  /\ panOffset # Pos(0, 0) /\ scale # FitScale(imageSize, isRotated)


\* C14: the mode of a touch gesture is fixed at its start: a second finger
\* touching down during a single-finger draw neither turns the gesture
\* into a pan or pinch nor cancels the draw, which is still in progress
\* afterwards and is committed at release.
C14_TouchModeFixed ==
  [][(handlePointerDown(SecondFingerDown) /\ isDrawing /\ ~isPanning) =>
       (isDrawing' /\ ~isPanning')]_vars


\* C15: pressing Space with the focus outside a text input while tool T
\* is active makes pan the active tool, and releasing it makes T the
\* active tool again unless a tool was selected in between; with the focus
\* inside an input or a text area, pressing or releasing Space changes
\* neither the tool nor the previous tool.
C15_SpaceOverride ==
  [][/\ handleKeyDown(Space) => tool' = "hand"
     /\ (handleKeyUp(Space) /\ held # "none") => tool' = held
     /\ (handleKeyDown(SpaceInInput) \/ handleKeyUp(SpaceInInput)) =>
          (tool' = tool /\ prevTool' = prevTool)]_vars


\* C16: a tool whose feature flag is disabled is never the active tool,
\* in the initial state or after any shortcut: removeText guards the text
\* eraser and the colour picker, removeColor the wand, wordBox the text
\* box, eraser the rectangle eraser and the brush.
ToolEnabled(t) ==
  /\ t \in {"remove-text", "pipette"} => features.removeText
  /\ t = "wand" => features.removeColor
  /\ t = "text-box" => features.wordBox
  /\ t \in {"eraser", "brush"} => features.eraser

C16_DisabledToolNeverActive == ToolEnabled(tool)

\* C17: with the zoom feature disabled no shortcut changes the scale:
\* not the modifier with +, - or 0, not the modifier with the wheel, not
\* a pinch move.
ZoomShortcutStep ==
  \/ \E e \in ZoomKeys : handleKeyDown(e)
  \/ \E e \in WheelEvents : e.ctrl /\ handleWheel(e)
  \/ handlePointerMove(TwoFingerMove) /\ lastTouchDistance # NoDistance

C17_ZoomDisabledKeepsScale ==
  [][(~features.zoom /\ ZoomShortcutStep) => scale' = scale]_vars

\* C18: once the image is loaded the scale lies in [0.1, 10] after any
\* sequence of wheel zooms, keyboard zooms, zoom buttons, pinches, resets
\* and fit recomputations, for any image and container size.
C18_ScaleInRange == imageLoaded => (100 <= scale /\ scale <= 10000)


\* C19: a pending text box exists only between the completion of a
\* non-degenerate text-box drag and its commit or cancel: while the text
\* step is closed, after a commit and after a cancel, the pending
\* rectangle is null and the text is empty.
C19_PendingBoxOnlyInStep ==
  ~isEnteringText => (pendingTextBox = NoBox /\ boxText = <<>>)


\* C20: pointer positions that map outside the buffer are clamped to it:
\* every coordinate a tool acts on (the start and the current position of
\* a gesture) satisfies 0 <= x <= width and 0 <= y <= height.
InBuffer(p) == 0 <= p.x /\ p.x <= canvas.w /\ 0 <= p.y /\ p.y <= canvas.h

C20_PositionsClamped == imageLoaded => (InBuffer(startPos) /\ InBuffer(currentPos))


\* C21: when the decode of the source image has failed the session stays
\* in its loading state: imageLoaded is false, the buffer is the blank
\* canvas of the first render and the history is empty, whatever pointer,
\* keyboard or wheel events arrive.
C21_NoSessionWithoutImage ==
  decode = "failed" =>
    /\ ~imageLoaded
    /\ canvas = BlankCanvas(DefaultCanvasW, DefaultCanvasH)
    /\ history = <<>>


\* C22: each activation of the save action calls onSave exactly once, with
\* the PNG encoding of the buffer's content at that moment, and changes
\* neither the buffer, the history nor the history index.
PngPixel(url, x, y) == url.data[y * url.width + x + 1]

C22_SaveCallsOnSaveOnce ==
  [][handleSave =>
       /\ Len(onSaveCalls') = Len(onSaveCalls) + 1
       /\ \A i \in 1 .. Len(onSaveCalls) : onSaveCalls'[i] = onSaveCalls[i]
       /\ LET url == onSaveCalls'[Len(onSaveCalls')]
          IN /\ url.mime = "image/png" /\ url.width = canvas.w /\ url.height = canvas.h
             /\ Len(url.data) = canvas.w * canvas.h
             /\ \A p \in Pixels(canvas.w, canvas.h) : PngPixel(url, p[1], p[2]) = canvas.px[p]
       /\ canvas' = canvas /\ history' = history /\ historyIndex' = historyIndex]_vars

\* A save taken after an edit: the picture saved is the edited buffer, not
\* the baseline.
C22_Witness ==
  /\ onSaveCalls # <<>> /\ historyIndex = 1 /\ canvas # history[1]
  /\ \A p \in Pixels(canvas.w, canvas.h) :
       PngPixel(onSaveCalls[Len(onSaveCalls)], p[1], p[2]) = canvas.px[p]


\* C23: text-box compositing draws a line of measured width m, in a box
\* of inner width W (outer width minus twice the padding), with its left
\* edge at offset 0 from the inner left edge for alignment left, at
\* (W - m) / 2 for center and at W - m for right; for W = 100, m = 40 and
\* center the offset is 30.  Offsets are compared doubled.
InnerLeft(box) == box.x + 10
InnerWidth(box) == box.w - 20
TwiceOffset(call, box) == call.x2 - 2 * InnerLeft(box)

C23_AlignedLineOffset ==
  [][(commitTextBox /\ pendingTextBox # NoBox) =>
       /\ Len(fillTextCalls') = 1
       /\ LET call == fillTextCalls'[1]
              W == InnerWidth(pendingTextBox)
              m == measureTextWidth(boxText)
          IN /\ call.text = boxText
             /\ boxAlignment = "left" => TwiceOffset(call, pendingTextBox) = 0
             /\ boxAlignment = "center" => TwiceOffset(call, pendingTextBox) = W - m
             /\ boxAlignment = "right" => TwiceOffset(call, pendingTextBox) = 2 * (W - m)
             /\ (boxAlignment = "center" /\ W = 100 /\ m = 40) =>
                  TwiceOffset(call, pendingTextBox) = 2 * 30]_vars

\* The commit of a centred line that measures 40 whose left edge was put
\* at x = 40: offset 30 from the inner left edge 10 of a box of outer
\* width 120.
C23_Witness ==
  /\ last = "push" /\ boxAlignment = "center" /\ ~isEnteringText
  /\ Len(fillTextCalls) = 1
  /\ fillTextCalls[1].text = <<"a", "b", "c", "d">> /\ fillTextCalls[1].x2 = 80
  /\ SelectionRect(startPos, currentPos).w = 120


\* C24: whenever the image has loaded and no gesture is in progress, the
\* buffer is pixel-identical to the snapshot at history[historyIndex].
C24_IdleBufferIsCurrentSnapshot ==
  (imageLoaded /\ Idle) => canvas = history[historyIndex + 1]


\* C25: with the image loaded, after every pointer-up (mouse up, mouse
\* leave, touch end) both isDrawing and isPanning are false, also when a pan
\* was started while a draw gesture was active.
C25_PointerUpEndsGesture ==
  [][(imageLoaded /\ handlePointerUp) => (~isDrawing' /\ ~isPanning')]_vars


\* C26: with no manual colour, the colour a text-eraser commit fills with
\* is the exact colour of the first sample, in row-major scan order, that
\* fell into the most-populous quantization bucket; buckets that tie for
\* the highest count are ranked by the scan order of their first samples.
ScanIndex(cv, p) == p[2] * cv.w + p[1]
KeptSamples(cv, r) == {p \in RingSamples(cv, r) : ~Discarded(cv.px[p])}
FirstInScan(cv, S) == CHOOSE p \in S : \A q \in S : ScanIndex(cv, p) <= ScanIndex(cv, q)
TopBuckets(cv, r) ==
  {b \in {BucketOf(cv.px[p]) : p \in KeptSamples(cv, r)} :
     \A p \in KeptSamples(cv, r) : BucketCount(cv, r, b) >= BucketCount(cv, r, BucketOf(cv.px[p]))}
FirstSeenInTopBucket(cv, r) ==
  FirstInScan(cv, {FirstInScan(cv, {p \in KeptSamples(cv, r) : BucketOf(cv.px[p]) = b}) :
                     b \in TopBuckets(cv, r)})
C26_FillIsFirstSampleOfTopBucket ==
  [][(TextEraserCommit /\ KeptSamples(canvas, SelectionRect(startPos, currentPos)) # {}) =>
       LET r == SelectionRect(startPos, currentPos)
       IN canvas'.px[<<r.x, r.y>>] = canvas.px[FirstSeenInTopBucket(canvas, r)]]_vars


\* C27: background inference counts no near-black sample (all three
\* channels below 80) in any bucket and never fills with a near-black
\* colour; when every perimeter sample is discarded the fill is opaque
\* white (255,255,255).
ScanCounts(cv, r) ==
  InferScan(cv, SampleRegion(cv, r.x, r.y, r.w, r.h), 0,
            [colors |-> <<>>, maxCount |-> 0, bg |-> <<255, 255, 255>>]).colors
SampledPixels(cv, r) ==
  LET reg == SampleRegion(cv, r.x, r.y, r.w, r.h)
  IN {<<reg.x + px, reg.y + py>> : <<px, py>> \in
        {q \in (0 .. reg.w - 1) \X (0 .. reg.h - 1) : OnSamplePerimeter(reg, q[1], q[2])}}
InSelection(p, r) ==
  r.x <= p[1] /\ p[1] < r.x + r.w /\ r.y <= p[2] /\ p[2] < r.y + r.h
WithinBuffer(cv, r) ==
  0 <= r.x /\ r.x + r.w <= cv.w /\ 0 <= r.y /\ r.y + r.h <= cv.h
C28_SamplesOutsideSelection ==
  [][(TextEraserCommit /\ WithinBuffer(canvas, SelectionRect(startPos, currentPos))) =>
       \A p \in SampledPixels(canvas, SelectionRect(startPos, currentPos)) :
         ~InSelection(p, SelectionRect(startPos, currentPos))]_vars


\* C29: no event of a two-finger gesture (the touch-start of each finger,
\* the moves, the touch-end) changes the buffer, the history, the manual
\* colour or the active tool, whichever tool is active.
C29_PinchLeavesEdit ==
  [][(\/ handlePointerDown(OneFinger(PressPoint))
      \/ handlePointerDown(SecondFingerDown)
      \/ handlePointerMove(TwoFingerMove)
      \/ handlePointerUp) =>
       UNCHANGED <<canvas, history, historyIndex, manualBgColor, useManualColor, tool>>]_vars


\* C30: the release of a drag with non-empty rectangle fills, with the
\* rectangle eraser, exactly the pixels between the componentwise minimum
\* and maximum of the two corners with opaque white, whatever the manual
\* colour settings; with the text eraser it fills them with the manual
\* colour if manual mode is on and with the inferred colour otherwise;
\* every other pixel keeps its value, and the result is the same whichever
\* corner the drag started from.
Between(a, v, b) == (a <= v /\ v < b) \/ (b <= v /\ v < a)
ErasedBy(p, a, b) == Between(a.x, p[1], b.x) /\ Between(a.y, p[2], b.y)
ManualPixel(n) == <<n \div 65536, (n \div 256) % 256, n % 256, 255>>
EraseFill(cv, a, b, t, useManual, manual) ==
  IF t = "eraser" THEN <<255, 255, 255, 255>>
  ELSE IF useManual THEN ManualPixel(manual)
  ELSE LET bg == InferBackground(cv, Min(a.x, b.x), Min(a.y, b.y), Abs(a.x - b.x), Abs(a.y - b.y))
       IN <<bg[1], bg[2], bg[3], 255>>
EraseRelease ==
  /\ handlePointerUp /\ isDrawing /\ ~isPanning /\ tool \in {"eraser", "remove-text"}
  /\ startPos.x # currentPos.x /\ startPos.y # currentPos.y
PickedPixel(e) ==
  <<getMousePos(e, canvas, isRotated).x, getMousePos(e, canvas, isRotated).y>>
C31_PipettePicksPixel ==
  [][/\ \A pt \in EraseCorners :
          (handlePointerDown(Mouse(0, pt)) /\ tool = "pipette") =>
            /\ ManualPixel(manualBgColor') = canvas.px[PickedPixel(Mouse(0, pt))]
            /\ useManualColor' /\ tool' = "remove-text"
            /\ UNCHANGED <<canvas, history, historyIndex>>
     /\ manualBgColor' # manualBgColor =>
          \E pt \in EraseCorners : handlePointerDown(Mouse(0, pt)) /\ tool = "pipette"
     /\ (EraseRelease /\ tool = "remove-text" /\ useManualColor) =>
          \A p \in Pixels(canvas.w, canvas.h) :
            ErasedBy(p, startPos, currentPos) => canvas'.px[p] = ManualPixel(manualBgColor)]_vars

\* A text-eraser commit that followed a pick of the blue pixel (0, 0): a
\* pixel that was not blue is blue.
C31_Witness ==
  /\ last = "push" /\ tool = "remove-text" /\ useManualColor /\ Len(history) = 2
  /\ ManualPixel(manualBgColor) = <<120, 120, 200, 255>>
  /\ history[1].px[<<0, 0>>] = <<120, 120, 200, 255>>
  /\ \E p \in Pixels(canvas.w, canvas.h) :
       /\ ErasedBy(p, startPos, currentPos)
       /\ history[1].px[p] # <<120, 120, 200, 255>>
       /\ canvas.px[p] = <<120, 120, 200, 255>>


\* C32: releasing a text-box drag with a non-empty rectangle opens the
\* style step and records the rectangle as pending without changing the
\* buffer or the history; committing the step appends exactly one
\* snapshot, that of the buffer after compositing; cancelling it appends
\* none and leaves the buffer unchanged.
TextBoxRelease ==
  /\ handlePointerUp /\ isDrawing /\ ~isPanning /\ tool = "text-box"
  /\ startPos.x # currentPos.x /\ startPos.y # currentPos.y
C32_TextBoxStep ==
  [][/\ TextBoxRelease =>
          /\ isEnteringText'
          /\ pendingTextBox' = [x |-> Min(startPos.x, currentPos.x),
                                y |-> Min(startPos.y, currentPos.y),
                                w |-> Abs(currentPos.x - startPos.x),
                                h |-> Abs(currentPos.y - startPos.y)]
          /\ UNCHANGED <<canvas, history, historyIndex>>
     /\ commitTextBox =>
          /\ Len(history') = Len(history) + 1
          /\ historyIndex' = historyIndex + 1
          /\ SubSeq(history', 1, Len(history)) = history
          /\ history'[Len(history')] = canvas'
     /\ cancelTextBox => UNCHANGED <<canvas, history, historyIndex>>]_vars

\* A commit of a dragged box with the text "a": one fillText call was
\* made and the history holds the baseline and the committed snapshot.
C32_Witness ==
  /\ last = "push" /\ tool = "text-box" /\ ~isEnteringText /\ Len(history) = 2
  /\ Len(fillTextCalls) = 1 /\ fillTextCalls[1].text = <<"a">>
  /\ history[2] = canvas


\* C33: the flood fill of a wand click ends after at most 1 + 4 * width *
\* height pops, and tests and recolours each pixel at most once: a pixel
\* popped after it was marked visited is skipped.  The run leaves the
\* buffer that the click leaves.
NoRepeat(s) == \A i, j \in 1 .. Len(s) : s[i] = s[j] => i = j
WandClick(pt) ==
  /\ handlePointerDown(Mouse(0, pt)) /\ tool = "wand"
  /\ SeedPixel(Mouse(0, pt)) \in Pixels(canvas.w, canvas.h)
  /\ ~SeedNearWhite(canvas.px[SeedPixel(Mouse(0, pt))])
  /\ ~SeedNearBlack(canvas.px[SeedPixel(Mouse(0, pt))])
C33_FloodFillVisitsOnce ==
  [][\A pt \in FillPoints :
       WandClick(pt) =>
         LET seed == SeedPixel(Mouse(0, pt))
             run == WandRun(canvas, seed[1], seed[2])
         IN /\ run.pops <= 1 + 4 * canvas.w * canvas.h
            /\ NoRepeat(run.tested) /\ NoRepeat(run.filled)
            /\ run.data = canvas'.px]_vars

\* A fill during which a pixel was popped a second time and skipped.
C33_Witness ==
  /\ last = "push" /\ tool = "wand" /\ Len(history) = 2
  /\ WandRun(history[1], startPos.x, startPos.y).pops
       > Len(WandRun(history[1], startPos.x, startPos.y).tested)
  /\ WandRun(history[1], startPos.x, startPos.y).data = canvas.px


\* C34: a second wand click on the same pixel immediately after a fill
\* that was not refused is refused: it changes neither the buffer nor the
\* history, the seed being opaque white by then.
C34_SecondClickRefused ==
  [][\A pt \in FillPoints :
       (/\ handlePointerDown(Mouse(0, pt)) /\ tool = "wand" /\ last \in {"push", "prune"}
        /\ SeedPixel(Mouse(0, pt)) = <<startPos.x, startPos.y>>) =>
         /\ canvas.px[SeedPixel(Mouse(0, pt))] = <<255, 255, 255, 255>>
         /\ UNCHANGED <<canvas, history, historyIndex>>]_vars

\* A refused click on a pixel that the click before it had turned white.
C34_Witness ==
  /\ last = "refuse" /\ tool = "wand" /\ Len(history) = 2 /\ historyIndex = 1
  /\ history[1].px[<<startPos.x, startPos.y>>] # <<255, 255, 255, 255>>
  /\ canvas.px[<<startPos.x, startPos.y>>] = <<255, 255, 255, 255>>
  /\ canvas = history[2]


\* C35: once the image has loaded, history[0] is the snapshot of the
\* loaded image in every later state, also when pointer events were
\* handled before the load; the index never falls below 0, so no undo
\* brings back a buffer from before the load.
C35_BaselineIsLoadedImage ==
  imageLoaded =>
    /\ Len(history) >= 1 /\ history[1] = seq.base
    /\ 0 <= historyIndex /\ historyIndex < Len(history)
    /\ decode = "done"

\* The load has just completed after a text-eraser drag was released on
\* the blank canvas: the history holds the image alone.
C35_Witness ==
  /\ last = "load" /\ imageLoaded /\ tool = "remove-text" /\ ~isDrawing /\ ~isPanning
  /\ startPos # currentPos /\ startPos.x # currentPos.x /\ startPos.y # currentPos.y
  /\ history = <<canvas>>


\* C36: the pointer maps to the buffer, in normal mode, at
\* x = (clientX - left) * (width / displayWidth) and
\* y = (clientY - top) * (height / displayHeight), and in rotated mode at
\* x = (clientY - top) * (width / displayHeight) and
\* y = (right - clientX) * (height / displayWidth), both taken down to
\* whole numbers here; pan and scale count only through the on-screen
\* rectangle, and a point inside the rectangle maps inside the buffer.
FloorOfRatio(q, num, den) == q * den <= num /\ num < (q + 1) * den
C36_PointerMapping ==
  [][\A c \in MapPoints :
       locate(Mouse(0, c)) =>
         LET r == ScreenRect(canvas, isRotated, scale, panOffset)
             cx == 1000 * c.x
             cy == 1000 * c.y
             p == startPos'
         IN /\ ~isRotated =>
                 /\ FloorOfRatio(p.x, (cx - r.left) * canvas.w, r.width)
                 /\ FloorOfRatio(p.y, (cy - r.top) * canvas.h, r.height)
            /\ isRotated =>
                 /\ FloorOfRatio(p.x, (cy - r.top) * canvas.w, r.height)
                 /\ FloorOfRatio(p.y, (r.right - cx) * canvas.h, r.width)
            /\ (r.left <= cx /\ cx <= r.right /\ r.top <= cy /\ cy <= r.bottom) =>
                 (0 <= p.x /\ p.x <= canvas.w /\ 0 <= p.y /\ p.y <= canvas.h)]_vars

\* In rotated mode, zoomed in and scrolled, a point was mapped to the
\* second pixel of the buffer's row.
C36_Witness ==
  /\ isRotated /\ imageLoaded /\ panOffset # Pos(0, 0)
  /\ scale > FitScale(imageSize, isRotated)
  /\ last = "none" /\ startPos = currentPos /\ startPos = Pos(1, 0)


\* C37: a modifier+wheel zoom that changes the scale sets, on each axis,
\* newPan = m - (m - oldPan) * (newScale / oldScale), m being the pointer
\* offset from the centre of the container (the product taken down to a
\* whole number here); a zoom at a bound of the scale changes neither the
\* pan offset nor the scale.
C37_ZoomKeepsPointerAnchor ==
  [][\A e \in {ZoomIn, ZoomOut} :
       handleWheel(e) =>
         /\ scale' # scale =>
              /\ FloorOfRatio(e.at.x - panOffset'.x, (e.at.x - panOffset.x) * scale', scale)
              /\ FloorOfRatio(e.at.y - panOffset'.y, (e.at.y - panOffset.y) * scale', scale)
         /\ scale' = scale => panOffset' = panOffset
         /\ (scale = 10000 /\ e = ZoomIn) => (scale' = scale /\ panOffset' = panOffset)
         /\ (scale = 100 /\ e = ZoomOut) => (scale' = scale /\ panOffset' = panOffset)]_vars

\* The view zoomed in to the upper bound about the pointer from a
\* scrolled position: the pan offset has left the scroll window.
C37_Witness ==
  /\ imageLoaded /\ scale = 10000 /\ last = "none"
  /\ ~InPanLimit(panOffset) /\ panOffset.x < 0 /\ panOffset.y > 0


\* C38: the text of a box is split on explicit newlines first; within each
\* paragraph the words are placed greedily in order, a word starting a new
\* line exactly when appending it to the current non-empty line would
\* exceed the inner width (outer width minus twice the padding); no word is
\* dropped or reordered, the first word of a line stays on it even if it
\* alone is wider than the inner width, and successive lines advance by
\* 1.2 times the font size.
RECURSIVE JoinWords(_)
JoinWords(ws) ==
  IF ws = <<>> THEN <<>>
  ELSE IF Len(ws) = 1 THEN ws[1]
  ELSE ws[1] \o <<" ">> \o JoinWords(Tail(ws))
RECURSIVE GreedyLines(_, _, _, _, _)
GreedyLines(ws, n, cur, W, gap) ==
  IF n > Len(ws) THEN <<JoinWords(cur)>>
  ELSE IF cur # <<>> /\ measureTextWidth(JoinWords(Append(cur, ws[n]))) + gap > W
  THEN <<JoinWords(cur)>> \o GreedyLines(ws, n + 1, <<ws[n]>>, W, gap)
  ELSE GreedyLines(ws, n + 1, Append(cur, ws[n]), W, gap)
RECURSIVE GreedyText(_, _, _)
GreedyText(ps, W, gap) ==
  IF ps = <<>> THEN <<>>
  ELSE GreedyLines(split(Head(ps), " "), 1, <<>>, W, gap) \o GreedyText(Tail(ps), W, gap)
DrawnAs(calls, lines, box) ==
  /\ Len(calls) = Len(lines)
  /\ \A k \in 1 .. Len(calls) :
       /\ calls[k].text = lines[k]
       /\ calls[k].y5 = 5 * (box.y + BoxPadding) + (k - 1) * 6 * BoxFontSize
C38_GreedyWrap ==
  [][(commitTextBox /\ pendingTextBox # NoBox) =>
       DrawnAs(fillTextCalls',
               GreedyText(split(boxText, "\n"), InnerWidth(pendingTextBox), 0),
               pendingTextBox)]_vars

\* What the commit does draw: the same greedy lines with every candidate
\* line measured together with one trailing space.
WrapsOnTrailingSpace ==
  [][(commitTextBox /\ pendingTextBox # NoBox) =>
       DrawnAs(fillTextCalls',
               GreedyText(split(boxText, "\n"), InnerWidth(pendingTextBox), GlyphAdvance),
               pendingTextBox)]_vars


\* C39: undo and redo never change the history sequence: its length and
\* every stored snapshot are the same before and after; only historyIndex
\* and the buffer change, and tool, pan offset and scale are left as they
\* were.
C39_UndoRedoKeepHistory ==
  [][(undo \/ redo) =>
       /\ Len(history') = Len(history)
       /\ \A i \in 1 .. Len(history) : history'[i] = history[i]
       /\ tool' = tool /\ panOffset' = panOffset /\ scale' = scale
       /\ UNCHANGED <<loadVars, gestureVars, isRotated, colourVars, boxVars>>]_vars

\* An undo back to the loaded image with the hand tool selected and the
\* view panned: the undone snapshot is still stored above the index.
C39_Witness ==
  /\ last = "undo" /\ historyIndex = 0 /\ Len(history) = 2
  /\ history[2] # history[1] /\ canvas = history[1]
  /\ tool = "hand" /\ panOffset # Pos(0, 0)


\* C40: every POST /api/feedback request, whatever its JSON body (one
\* without a type field included), eventually receives exactly one
\* response: {success: true} if and only if the webhook URL is configured
\* and the webhook call answered OK, and otherwise a status-500 response
\* carrying an error message.
Answered(r) == requests[r].pc = "closed" /\ Len(requests[r].sent) = 1
C40_FeedbackAnswered ==
  /\ [](\A r \in RequestIds :
          /\ Len(requests[r].sent) <= 1
          /\ \A i \in 1 .. Len(requests[r].sent) :
               LET reply == requests[r].sent[i]
               IN /\ reply.body = "success" => (webhookUrl /\ reply.status = 200)
                  /\ reply.body # "success" => reply.status = 500)
  /\ \A r \in RequestIds : (requests[r].pc = "posted") ~> Answered(r)

\* The same for the bodies the feedback form sends, which carry a type.
FormRequestsAnswered ==
  \A r \in RequestIds :
    (requests[r].pc = "posted" /\ requests[r].type # NoType) ~> Answered(r)

====
